---- MODULE Spec2Model ----
(***************************************************************************)
(* Adaptive clip encoder of asbplayer: the GIF/JPEG/WebM clip objects      *)
(* (src/common/src/image.ts, webm-file-media-fragment-data.ts), the        *)
(* palette worker pool and the worker-side message handler                 *)
(* (src/common/src/gif-encoder-worker.ts).                                 *)
(***************************************************************************)
EXTENDS Integers, Sequences, FiniteSets, TLC

----------------------------------------------------------------------------
(* Bounds of the model *)

\* requests sent to one encoder worker in the worker-side specification
MaxRequests == 2
\* frames handed to the palette pool when it is exercised on its own
MaxPoolFrames == 4
\* representable values per millisecond: the planner's step is a quotient of
\* doubles, rounded to the nearest representable number
StepGrid == 16
\* frames planned for a collection during playback
MaxPlaybackFrames == 3
\* pixels of a frame of the collection
FramePixels == 5
\* events a video element fires while createVideoElement waits for it
MaxElementEvents == 3

(* Program constants *)
GIF_APPLY_PALETTE_POOL_MIN_FRAMES == 12
GIF_APPLY_PALETTE_POOL_MIN_WORKERS == 2
GIF_APPLY_PALETTE_POOL_MAX_WORKERS == 4
GIF_FRAME_YIELD_INTERVAL == 2
GIF_MOTION_PROBE_FRAME_COUNT == 5

----------------------------------------------------------------------------
(* Worker side: gif-encoder-worker.ts *)

VARIABLES
    wkRequest,      \* request id -> the message the worker received, or NoMessage
    wkPc,           \* request id -> "unsent" | "convertToBlob" | "done"
    wkPosted        \* request id -> sequence of response tags posted for it

workerVars == <<wkRequest, wkPc, wkPosted>>

NoMessage == [command |-> "none"]
RequestIds == 1..MaxRequests

\* the tags of GifEncoderRequestMessage plus EncodeJpegInWorkerMessage, and a
\* tag the worker does not know
KnownCommands == {"encode", "quantizePalette", "applyPalette", "encodeIndexedGif", "encodeJpeg"}
Commands == KnownCommands \cup {"bogus"}

\* A branch of onMessage: compute, build the response, postMessage, return.
\* computeThrows: the routine of the branch throws; postThrows: postMessage
\* throws (nothing is posted by a postMessage that throws).
Branch(tag, computeThrows, postThrows) ==
    IF computeThrows \/ postThrows
        THEN [posted |-> <<>>, threw |-> TRUE]
        ELSE [posted |-> <<tag>>, threw |-> FALSE]

\* the same handler with the `return` after postMessage missing: control falls
\* through to the final throw
onMessageNoReturn(command, computeThrows, postThrows) ==
    LET try == IF command = "encode" THEN Branch("encoded", computeThrows, postThrows)
               ELSE IF command = "quantizePalette" THEN Branch("quantizedPalette", computeThrows, postThrows)
               ELSE IF command = "applyPalette" THEN Branch("appliedPalette", computeThrows, postThrows)
               ELSE IF command = "encodeIndexedGif" THEN Branch("encoded", computeThrows, postThrows)
               ELSE IF command = "encodeJpeg" THEN Branch("encodedJpeg", computeThrows, postThrows)
               ELSE [posted |-> <<>>, threw |-> TRUE]
    IN  Append(try.posted, "error")

\* onmessage = async (event) => { try { ... } catch (error) { postMessage(error) } }
\* the responses posted for one request, in order
onMessage(command, computeThrows, postThrows) ==
    LET try == IF command = "encode" THEN Branch("encoded", computeThrows, postThrows)
               ELSE IF command = "quantizePalette" THEN Branch("quantizedPalette", computeThrows, postThrows)
               ELSE IF command = "applyPalette" THEN Branch("appliedPalette", computeThrows, postThrows)
               ELSE IF command = "encodeIndexedGif" THEN Branch("encoded", computeThrows, postThrows)
               ELSE IF command = "encodeJpeg" THEN Branch("encodedJpeg", computeThrows, postThrows)
               ELSE [posted |-> <<>>, threw |-> TRUE]
    IN  IF try.threw THEN Append(try.posted, "error") ELSE try.posted

WorkerInit ==
    /\ wkRequest = [i \in RequestIds |-> NoMessage]
    /\ wkPc = [i \in RequestIds |-> "unsent"]
    /\ wkPosted = [i \in RequestIds |-> <<>>]

\* The worker receives request i. Every command but encodeJpeg is handled
\* without suspension. encodeJpeg throws before its first await when
\* OffscreenCanvas or its 2d context is missing (syncThrows), otherwise it
\* awaits canvas.convertToBlob and the handler is resumed later.
WorkerReceive(i, command, syncThrows, postThrows) ==
    /\ wkPc[i] = "unsent"
    /\ \A j \in RequestIds : j < i => wkPc[j] # "unsent"
    /\ wkRequest' = [wkRequest EXCEPT ![i] = [command |-> command, postThrows |-> postThrows]]
    /\ IF command = "encodeJpeg" /\ ~syncThrows
          THEN /\ wkPc' = [wkPc EXCEPT ![i] = "convertToBlob"]
               /\ UNCHANGED wkPosted
          ELSE /\ wkPc' = [wkPc EXCEPT ![i] = "done"]
               /\ wkPosted' = [wkPosted EXCEPT ![i] = onMessage(command, syncThrows, postThrows)]

\* convertToBlob / blob.arrayBuffer settle and the encodeJpeg branch finishes
WorkerJpegResume(i, blobThrows) ==
    /\ wkPc[i] = "convertToBlob"
    /\ wkPc' = [wkPc EXCEPT ![i] = "done"]
    /\ wkPosted' = [wkPosted EXCEPT ![i] =
                        onMessage(wkRequest[i].command, blobThrows, wkRequest[i].postThrows)]
    /\ UNCHANGED wkRequest

----------------------------------------------------------------------------
(* Coordinator side: clip objects, renders, workers and the palette pool   *)
(* (image.ts, class GifFileImageData)                                      *)

VARIABLES
    clip,           \* clip id -> the clip object, its render and its workers
    video,          \* video id -> the HTMLVideoElement
    gifOptions      \* the GifOptions every clip of the chain is built with

clipVars == <<clip, video, gifOptions>>

\* One clip taken through its planner and its frame collection on its own,
\* with the numbers and the pixels the decisions are made of
VARIABLES
    plan,           \* the clip whose frame timestamps are planned and sought
    col,            \* the clip whose frames are collected
    pb,             \* the clip whose frames are collected during playback
    card,           \* the card a clip or a media fragment is made from
    element,        \* the video element createVideoElement is waiting for
    data,           \* the data objects of an image or fragment: a chain made by atTimestamp
    factory         \* the encoder worker factory and its cached script URL

pureVars == <<plan, col, pb, card, element, data, factory>>
vars == <<wkRequest, wkPc, wkPosted, clip, video, gifOptions, plan, col, pb, card, element,
          data, factory>>

\* clip objects that can exist: the first one and those atTimestamp creates
MaxClips == 2
Clips == 1..MaxClips
\* a clip creates at most one video element and one canvas; they are named
\* after the clip that created them
Videos == Clips

Timestamps == {0, 1}
\* navigator.hardwareConcurrency
HardwareConcurrencyChoices == {2, 3}

NoError == <<"none">>
Max(a, b) == IF a >= b THEN a ELSE b
Min(a, b) == IF a <= b THEN a ELSE b

\* worker 0 is the render's first worker (still-JPEG worker, single encode
\* worker or palette coordinator); 1..MaxWorkers are the pool workers
WorkerIds == 0..GIF_APPLY_PALETTE_POOL_MAX_WORKERS
PoolWorkerIds == 1..GIF_APPLY_PALETTE_POOL_MAX_WORKERS

NoReq == [command |-> "none"]
NoWorker == [status |-> "none", req |-> NoReq, handler |-> FALSE]
Hole == <<"hole">>

\* palettes a quantizePalette reply can carry
Palettes == {1, 2}

\* the promise of _applyPaletteInWorkerPool and the locals of its executor.
\* settleCalls counts the calls of resolve and reject; firstError and
\* outOfOrder are history: the first failure a pool worker delivered, and
\* whether a frame was completed while an earlier one was still missing
NoPool == [promise |-> "none", error |-> NoError, settled |-> FALSE, settleCalls |-> 0,
           nextFrameIndex |-> 0, completedFrameCount |-> 0,
           frameIndexBuffers |-> <<>>, palette |-> 0, nWorkers |-> 0,
           firstError |-> NoError, outOfOrder |-> FALSE]

\* gifenc applyPalette as used by applyPaletteToFrame: the index buffer is a
\* function of the frame and the palette alone
IndexBufferOf(frame, palette) == <<"idx", frame, palette>>

\* response tag each handler accepts as success
ExpectedTag(command) ==
    IF command = "quantizePalette" THEN "quantizedPalette"
    ELSE IF command = "applyPalette" THEN "appliedPalette"
    ELSE IF command = "encodeJpeg" THEN "encodedJpeg"
    ELSE "encoded"

\* what arrives at a Worker object: a response message with a tag, or an
\* error event
ResponseTags == {"encoded", "encodedJpeg", "quantizedPalette", "appliedPalette", "error"}
Arrivals == ResponseTags \cup {"errorEvent"}

\* worker.postMessage(message[, transfer]) after installing onmessage/onerror
PostRequest(r, w, req) ==
    [r EXCEPT !.workers[w].req = req, !.workers[w].handler = TRUE]

(* ---- _applyPaletteInWorkerPool ---- *)

PoolFrameCount(r) == Len(r.frameBuffers)

PoolResolve(r) ==
    [r EXCEPT !.pool.settled = TRUE,
              !.pool.settleCalls = @ + 1,
              !.pool.promise = IF @ = "pending" THEN "resolved" ELSE @]

\* the pool without its `.catch(fail)`: a failed frame is dropped
failDropped(r, error) == r

\* const fail = (error) => { if (!settled) { settled = true; reject(error) } }
fail(r, error) ==
    IF r.pool.settled
        THEN r
        ELSE [r EXCEPT !.pool.settled = TRUE,
                       !.pool.settleCalls = @ + 1,
                       !.pool.promise = IF @ = "pending" THEN "rejected" ELSE @,
                       !.pool.error = IF r.pool.promise = "pending" THEN error ELSE @]

\* const schedule = (worker) => { ... }
schedule(r, w) ==
    IF r.pool.settled
        THEN r
    ELSE IF r.pool.nextFrameIndex >= PoolFrameCount(r)
        THEN IF r.pool.completedFrameCount >= PoolFrameCount(r) THEN PoolResolve(r) ELSE r
    ELSE LET frameIndex == r.pool.nextFrameIndex
             q == [r EXCEPT !.pool.nextFrameIndex = @ + 1,
                            !.detached = @ \cup {frameIndex}]
         IN  PostRequest(q, w, [command |-> "applyPalette",
                                frameIndex |-> frameIndex,
                                frameBuffer |-> r.frameBuffers[frameIndex + 1],
                                palette |-> r.pool.palette])

\* the .then callback that stores every result in the next free slot, in
\* completion order
appliedInCompletionOrder(r, w, appliedFrame) ==
    IF r.pool.settled
        THEN r
        ELSE LET q == [r EXCEPT !.pool.frameIndexBuffers[r.pool.completedFrameCount + 1] = appliedFrame.buffer,
                                !.pool.completedFrameCount = @ + 1]
             IN  IF q.pool.completedFrameCount >= PoolFrameCount(q)
                    THEN PoolResolve(q)
                    ELSE schedule(q, w)

\* the .then callback that resolves as soon as every frame has been handed out
appliedResolvesWhenAllScheduled(r, w, appliedFrame) ==
    IF r.pool.settled
        THEN r
        ELSE LET q == [r EXCEPT !.pool.frameIndexBuffers[appliedFrame.frameIndex + 1] = appliedFrame.buffer,
                                !.pool.completedFrameCount = @ + 1]
             IN  IF q.pool.nextFrameIndex >= PoolFrameCount(q)
                    THEN PoolResolve(q)
                    ELSE schedule(q, w)

\* .then((appliedFrame) => { ... }) of schedule
applied(r, w, appliedFrame) ==
    IF r.pool.settled
        THEN r
        ELSE LET q == [r EXCEPT !.pool.frameIndexBuffers[appliedFrame.frameIndex + 1] = appliedFrame.buffer,
                                !.pool.completedFrameCount = @ + 1]
             IN  IF q.pool.completedFrameCount >= PoolFrameCount(q)
                    THEN PoolResolve(q)
                    ELSE schedule(q, w)

RECURSIVE ScheduleFrom(_, _)
\* for (const worker of workers) { schedule(worker) }
ScheduleFrom(r, w) ==
    IF w > r.pool.nWorkers THEN r ELSE ScheduleFrom(schedule(r, w), w + 1)

\* _applyPaletteInWorkerPool(workers, frameBuffers, palette) up to the point
\* where the promise executor has run
applyPaletteInWorkerPool(r, nWorkers, palette) ==
    LET q == [r EXCEPT !.pool = [NoPool EXCEPT !.promise = "pending",
                                               !.palette = palette,
                                               !.nWorkers = nWorkers,
                                               !.frameIndexBuffers =
                                                    [i \in 1..PoolFrameCount(r) |-> Hole]]]
    IN  IF PoolFrameCount(r) = 0
            THEN [q EXCEPT !.pool.promise = "resolved"]
        ELSE IF nWorkers = 0
            THEN [q EXCEPT !.pool.promise = "rejected", !.pool.error = <<"worker pool is empty">>]
        ELSE ScheduleFrom(q, 1)

\* a worker that keeps the palette of its session: once a frame of a pool
\* has been indexed it indexes against the first palette it knows
AppliedFrameOfWithSession(req) ==
    [frameIndex |-> req.frameIndex,
     buffer |-> IndexBufferOf(req.frameBuffer,
                    IF \E c \in Clips : clip[c].pool.completedFrameCount > 0
                        THEN 1 ELSE req.palette)]

\* a worker that indexes every frame against the first palette it knows
AppliedFrameOfFirstPalette(req) ==
    [frameIndex |-> req.frameIndex, buffer |-> IndexBufferOf(req.frameBuffer, 1)]

\* the worker's reply to an applyPalette request: applyPaletteToFrame echoes
\* frameIndex and returns the index buffer of the frame
AppliedFrameOf(req) ==
    [frameIndex |-> req.frameIndex, buffer |-> IndexBufferOf(req.frameBuffer, req.palette)]

\* the error a handler rejects with
ErrorOf(w, arrival) ==
    IF arrival = "error" THEN <<"worker error response", w>>
    ELSE IF arrival = "errorEvent" THEN <<"worker error event", w>>
    ELSE <<"Unexpected worker response", w, arrival>>

\* _applyPaletteInWorker settles and the pool's .then / .catch runs
PoolArrival(r, w, arrival) ==
    LET req == r.workers[w].req
        ok == arrival = ExpectedTag("applyPalette")
        q == [r EXCEPT !.workers[w].req = NoReq, !.workers[w].handler = FALSE,
                       !.pool.firstError = IF ~ok /\ @ = NoError THEN ErrorOf(w, arrival) ELSE @,
                       !.pool.outOfOrder = @ \/ (ok /\ \E j \in 1..req.frameIndex :
                                                        r.pool.frameIndexBuffers[j] = Hole)]
    IN  IF ok
            THEN applied(q, w, AppliedFrameOf(req))
            ELSE fail(q, ErrorOf(w, arrival))

(* ---- the clip object ---- *)

\* video.currentTime: the frame the element shows, <<start timestamp, frame>>
ZeroTime == <<0, 0>>
TargetTime(r, i) == <<r.startTimestamp, i>>

\* paused, playbackRate (in hundredths), muted and volume are those of a new
\* element after createVideoElement; callback: a frame callback that
\* _renderWebm scheduled is outstanding
NoVideo == [status |-> "none", onseeked |-> 0, onerror |-> 0, onended |-> 0,
            seeking |-> FALSE, currentTime |-> ZeroTime,
            paused |-> TRUE, playbackRate |-> 100, muted |-> FALSE, volume |-> 0,
            callback |-> FALSE]

NoClip == [kind |-> "none", startTimestamp |-> 0, video |-> 0, canvas |-> 0,
           blobPromise |-> "none", blobError |-> NoError, blobPromiseReject |-> FALSE,
           cachedBlob |-> "none", outputExtension |-> "gif",
           pc |-> "idle", rVideo |-> 0, rCanvas |-> 0, planned |-> 0,
           phase |-> "none", stage |-> "top", idx |-> 0, probeK |-> 0, pending |-> 0,
           seekTarget |-> 0, shots |-> <<>>, out |-> <<>>, truncatedByBudget |-> FALSE,
           frameBuffers |-> <<>>, detached |-> {}, nWorkers |-> 0,
           workers |-> [w \in WorkerIds |-> NoWorker], pool |-> NoPool,
           recorder |-> "none", stopRecorder |-> "none", pendingError |-> NoError,
           savedOnError |-> 0, savedOnEnded |-> 0,
           savedPlaybackRate |-> 100, savedMuted |-> FALSE, savedVolume |-> 0,
           fallback |-> FALSE, readDetached |-> FALSE,
           renders |-> 0, calls |-> {}]

\* new GifFileImageData(file, timestamp, timestamp + duration, ..., video, canvas, ...)
NewClip(kind, timestamp, v, cv) ==
    [NoClip EXCEPT !.kind = kind, !.startTimestamp = Max(0, timestamp),
                   !.video = v, !.canvas = cv]

CancelledError(kind) ==
    IF kind = "webm" THEN <<"CancelledMediaFragmentDataRenderingError">>
                     ELSE <<"CancelledImageDataRenderingError">>

Running(r) == r.pc \notin {"idle", "done", "failed"}

\* blob(): const blob = await this._renderGif(); ...; resolve(blob)
resolveBlob(r, blob) ==
    [r EXCEPT !.blobPromiseReject = FALSE,
              !.cachedBlob = blob,
              !.blobPromise = IF @ = "pending" THEN "resolved" ELSE @,
              !.pc = "done"]

\* blob(): catch (e) { reject(e) }
rejectBlob(r, e) ==
    [r EXCEPT !.blobPromise = IF @ = "pending" THEN "rejected" ELSE @,
              !.blobError = IF r.blobPromise = "pending" THEN e ELSE @,
              !.pc = "failed"]

\* this._blobPromiseReject?.(new Error(...)): a generic error instead of the
\* cancellation error
cancelWithGenericError(r) ==
    IF r.blobPromiseReject
        THEN [r EXCEPT !.blobPromise = IF @ = "pending" THEN "rejected" ELSE @,
                       !.blobError = IF r.blobPromise = "pending" THEN <<"Error">> ELSE @]
        ELSE r

\* this._blobPromiseReject?.(new CancelledImageDataRenderingError())
cancelBlob(r) ==
    IF r.blobPromiseReject
        THEN [r EXCEPT !.blobPromise = IF @ = "pending" THEN "rejected" ELSE @,
                       !.blobError = IF r.blobPromise = "pending" THEN CancelledError(r.kind) ELSE @]
        ELSE r

\* worker.terminate() for the coordinator and every pool worker created
TerminateAll(r) ==
    [r EXCEPT !.workers = [w \in WorkerIds |->
            IF r.workers[w].status = "live"
                THEN [r.workers[w] EXCEPT !.status = "terminated"]
                ELSE r.workers[w]]]

\* the worker count without the cap of GIF_APPLY_PALETTE_POOL_MAX_WORKERS
applyPaletteWorkerCountUncapped(frameCount, hardwareConcurrency) ==
    IF frameCount < GIF_APPLY_PALETTE_POOL_MIN_FRAMES
        THEN 1
        ELSE LET maxWorkersFromHardware == Max(1, hardwareConcurrency - 1)
                 workerCount == Min(maxWorkersFromHardware, frameCount)
             IN  IF workerCount >= GIF_APPLY_PALETTE_POOL_MIN_WORKERS THEN workerCount ELSE 1

\* _applyPaletteWorkerCount(frameCount)
applyPaletteWorkerCount(frameCount, hardwareConcurrency) ==
    IF frameCount < GIF_APPLY_PALETTE_POOL_MIN_FRAMES
        THEN 1
        ELSE LET maxWorkersFromHardware == Max(1, hardwareConcurrency - 1)
                 workerCount == Min(GIF_APPLY_PALETTE_POOL_MAX_WORKERS,
                                    Min(maxWorkersFromHardware, frameCount))
             IN  IF workerCount >= GIF_APPLY_PALETTE_POOL_MIN_WORKERS THEN workerCount ELSE 1

\* this._worker(): the factory is called
CallWorkerFactory(r, pc) ==
    [r EXCEPT !.pc = pc]

\* _renderGifInWorker after `await this._collectFrames(...)`
afterCollectFrames(r, frameBuffers, hardwareConcurrency) ==
    LET n == Len(frameBuffers)
        q == [r EXCEPT !.frameBuffers = frameBuffers,
                       !.outputExtension = IF n = 1 THEN "jpeg" ELSE "gif",
                       !.nWorkers = IF n = 1 THEN 1
                                    ELSE applyPaletteWorkerCount(n, hardwareConcurrency)]
    IN  IF n = 1 THEN CallWorkerFactory(q, "jpegWorker")
        ELSE IF q.nWorkers = 1 THEN CallWorkerFactory(q, "encodeWorker")
        ELSE CallWorkerFactory(q, "coordinatorWorker")

(* ---- worker phases of _renderGifInWorker and _encodeGifWithPaletteWorkerPool ---- *)

LiveWorker(r, w) == [r EXCEPT !.workers[w] = [NoWorker EXCEPT !.status = "live"]]

AllFrames(r) == {i - 1 : i \in 1..Len(r.frameBuffers)}

\* a failed factory call that leaves the workers created so far running
workerFactoryFailedNoTerminate(r) ==
    rejectBlob(r, <<"worker factory failed">>)

\* the continuation of `await this._worker()` when the factory fails
workerFactoryFailed(r) ==
    rejectBlob(TerminateAll(r), <<"worker factory failed">>)

\* the continuation of `await this._worker()` when the factory delivers
workerCreated(r) ==
    IF r.pc = "jpegWorker" THEN
        LET q == [LiveWorker(r, 0) EXCEPT !.pc = "encodingJpeg", !.detached = @ \cup {0}]
        IN  PostRequest(q, 0, [command |-> "encodeJpeg", frameBuffer |-> r.frameBuffers[1]])
    ELSE IF r.pc = "encodeWorker" THEN
        LET q == [LiveWorker(r, 0) EXCEPT !.pc = "encoding", !.detached = @ \cup AllFrames(r)]
        IN  PostRequest(q, 0, [command |-> "encode", frameBuffers |-> r.frameBuffers])
    ELSE IF r.pc = "coordinatorWorker" THEN
        CallWorkerFactory(LiveWorker(r, 0), "poolWorkers")
    ELSE \* "poolWorkers": applyPaletteWorkers.push(await this._worker())
        LET k == Cardinality({w \in PoolWorkerIds : r.workers[w].status = "live"}) + 1
            q == LiveWorker(r, k)
        IN  IF k < r.nWorkers
                THEN CallWorkerFactory(q, "poolWorkers")
                ELSE PostRequest([q EXCEPT !.pc = "quantizing"], 0,
                                 [command |-> "quantizePalette", frameBuffers |-> r.frameBuffers])

\* _encodeGifWithPaletteWorkerPool after `await this._applyPaletteInWorkerPool(...)`
afterPool(r) ==
    IF r.pc # "applyingPalette" THEN r
    ELSE IF r.pool.promise = "resolved" THEN
        PostRequest([r EXCEPT !.pc = "encodingIndexed"], 0,
                    [command |-> "encodeIndexedGif",
                     frameIndexBuffers |-> r.pool.frameIndexBuffers,
                     palette |-> r.pool.palette])
    ELSE IF r.pool.promise = "rejected" THEN
        rejectBlob(TerminateAll(r), r.pool.error)
    ELSE r

\* catch { return await this._jpegBlobFromFrameBuffer(ctx, w, h, jpegFrameBuffer) }
\* the frame buffer was transferred with the encodeJpeg request, so
\* new Uint8ClampedArray(frameBuffer) / new ImageData(...) throws.
\* fallback and readDetached are history: the catch block was entered, and
\* the coordinator read a buffer it had transferred
jpegFallback(r) ==
    LET q == [r EXCEPT !.fallback = TRUE, !.readDetached = @ \/ (0 \in r.detached)]
    IN  IF 0 \in r.detached
            THEN rejectBlob(TerminateAll(q), <<"detached frame buffer">>)
            ELSE resolveBlob(TerminateAll(q), "jpeg")

\* onmessage / onerror of the request in flight on worker w, and what the
\* awaiting code does next
workerArrival(r, w, arrival, palette) ==
    LET req == r.workers[w].req
        q == [r EXCEPT !.workers[w].req = NoReq, !.workers[w].handler = FALSE]
        ok == arrival = ExpectedTag(req.command)
    IN  IF req.command = "applyPalette" THEN afterPool(PoolArrival(r, w, arrival))
        ELSE IF req.command = "encodeJpeg" THEN
            IF ok THEN resolveBlob(TerminateAll(q), "jpeg") ELSE jpegFallback(q)
        ELSE IF req.command = "quantizePalette" THEN
            IF ok THEN afterPool(applyPaletteInWorkerPool(
                                    [q EXCEPT !.pc = "applyingPalette"], r.nWorkers, palette))
                  ELSE rejectBlob(TerminateAll(q), ErrorOf(w, arrival))
        ELSE \* "encode", "encodeIndexedGif"
            IF ok THEN resolveBlob(TerminateAll(q), "gif")
                  ELSE rejectBlob(TerminateAll(q), ErrorOf(w, arrival))

(* ---- _collectFrames, _captureFrameBuffer, _seekVideo ---- *)

\* Math.round(a / b) for a >= 0, b > 0
RoundDiv(a, b) == (2 * a + b) \div (2 * b)

RECURSIVE SpacedFrom(_, _, _, _)
\* the for loop of evenlySpacedIndexes
SpacedFrom(i, n, t, indexes) ==
    IF i >= t THEN indexes
    ELSE LET index == RoundDiv(i * (n - 1), t - 1)
         IN  SpacedFrom(i + 1, n, t,
                        IF Len(indexes) > 0 /\ indexes[Len(indexes)] = index
                            THEN indexes ELSE Append(indexes, index))

\* evenlySpacedIndexes(frameCount, targetFrameCount)
evenlySpacedIndexes(frameCount, targetFrameCount) ==
    LET n == Max(1, frameCount)
        t == Max(1, Min(targetFrameCount, n))
    IN  IF t = n THEN [i \in 1..n |-> i - 1]
        ELSE IF t = 1 THEN <<n - 1>>
        ELSE LET a == SpacedFrom(0, n, t, <<>>)
                 b == IF a[1] # 0 THEN <<0>> \o a ELSE a
             IN  IF b[Len(b)] # n - 1 THEN Append(b, n - 1) ELSE b

ProbeIndexes(r) ==
    evenlySpacedIndexes(r.planned, Min(r.planned, GIF_MOTION_PROBE_FRAME_COUNT))

Captured(r, i) == r.shots[i + 1] # Hole
FramesOf(r, indexes) == [k \in 1..Len(indexes) |-> r.shots[indexes[k] + 1]]

\* what the pixels and the clock decide in _collectFrames and what the
\* platform reports: lowMotion (the scores are at or below the JPEG cut-offs),
\* flush (the frame is a new drawing and its delay has elapsed), truncate (the
\* collection budget is used up), hardwareConcurrency
Choices == [lowMotion : BOOLEAN, flush : BOOLEAN, truncate : BOOLEAN,
            hardwareConcurrency : HardwareConcurrencyChoices]

SetClip(W, c, r) == [W EXCEPT !.clip[c] = r]

\* _collectFrames returns: its locals go out of scope
collected(W, c, indexes, ch) ==
    LET r == W.clip[c]
        q == [r EXCEPT !.phase = "none", !.stage = "top", !.idx = 0, !.probeK = 0,
                       !.pending = 0, !.seekTarget = 0, !.out = <<>>, !.shots = <<>>]
    IN  SetClip(W, c, afterCollectFrames(q, FramesOf(r, indexes), ch.hardwareConcurrency))

\* ctx.drawImage(video, ...); ctx.getImageData(...): the frame the element
\* shows is stored as the buffer of the frame that was asked for
drawFrame(W, c) ==
    LET r == W.clip[c]
    IN  SetClip(W, c, [r EXCEPT !.shots[r.seekTarget + 1] = W.video[r.rVideo].currentTime,
                                !.stage = "afterFrame"])

RECURSIVE Advance(_, _, _)

\* _captureFrameBuffer -> _seekVideo(video, timestamp): installs onseeked and
\* onerror and either resolves at once (the element is already there) or
\* sets currentTime and waits
seekVideo(W, c, i, ch) ==
    LET r == [W.clip[c] EXCEPT !.seekTarget = i, !.pc = "seeking"]
        v == r.rVideo
        vid == W.video[v]
    IN  IF vid.currentTime = TargetTime(r, i)
            THEN Advance(drawFrame([clip |-> [W.clip EXCEPT ![c] = r],
                                    video |-> [W.video EXCEPT ![v] =
                                        [vid EXCEPT !.onseeked = 0, !.onerror = 0]]], c),
                         c, ch)
            ELSE [clip |-> [W.clip EXCEPT ![c] = r],
                  video |-> [W.video EXCEPT ![v] =
                        [vid EXCEPT !.onseeked = c, !.onerror = c,
                                    !.currentTime = TargetTime(r, i),
                                    !.seeking = (vid.status = "live")]]]

\* await yieldToEventLoop()
yieldToEventLoop(W, c) ==
    SetClip(W, c, [W.clip[c] EXCEPT !.pc = "yield", !.stage = "afterYield"])

\* _collectFrames from where it stands (phase, stage, idx) to its next
\* suspension or to its return
Advance(W, c, ch) ==
    LET r == W.clip[c]
        P == r.planned
        go(q) == Advance(SetClip(W, c, q), c, ch)
    IN
    IF r.phase = "single" THEN
        IF r.stage = "top" THEN seekVideo(W, c, 0, ch)
        ELSE collected(W, c, <<0>>, ch)
    ELSE IF r.phase = "plain" THEN
        \* _captureFrameBuffers(video, ctx, w, h, frameTimestamps, 0, length)
        IF r.stage = "top" THEN
            IF r.idx >= P THEN collected(W, c, [i \in 1..P |-> i - 1], ch)
            ELSE IF r.idx > 0 /\ r.idx % GIF_FRAME_YIELD_INTERVAL = 0 THEN yieldToEventLoop(W, c)
            ELSE seekVideo(W, c, r.idx, ch)
        ELSE IF r.stage = "afterYield" THEN seekVideo(W, c, r.idx, ch)
        ELSE go([r EXCEPT !.idx = @ + 1, !.stage = "top"])
    ELSE IF r.phase = "first" THEN
        IF r.stage = "top" THEN seekVideo(W, c, 0, ch)
        ELSE go([r EXCEPT !.phase = "probe", !.probeK = 1, !.stage = "top"])
    ELSE IF r.phase = "probe" THEN
        IF r.stage = "top" THEN
            IF r.probeK > Len(ProbeIndexes(r)) THEN
                IF gifOptions.createJpegIfMotionIsLow /\ ch.lowMotion THEN
                    IF Captured(r, P - 1) THEN collected(W, c, <<P - 1>>, ch)
                    ELSE seekVideo(SetClip(W, c, [r EXCEPT !.phase = "earlyLast"]), c, P - 1, ch)
                ELSE go([r EXCEPT !.phase = "main", !.idx = 1, !.pending = 0, !.out = <<>>])
            ELSE IF Captured(r, ProbeIndexes(r)[r.probeK]) THEN go([r EXCEPT !.probeK = @ + 1])
            ELSE seekVideo(W, c, ProbeIndexes(r)[r.probeK], ch)
        ELSE go([r EXCEPT !.probeK = @ + 1, !.stage = "top"])
    ELSE IF r.phase = "earlyLast" THEN
        collected(W, c, <<P - 1>>, ch)
    ELSE \* "main": the motion pass
        LET finish(q) ==
                IF gifOptions.createJpegIfMotionIsLow /\ ch.lowMotion
                    THEN collected(SetClip(W, c, q), c, <<q.pending>>, ch)
                    ELSE collected(SetClip(W, c, q), c, Append(q.out, q.pending), ch)
            frame(q) ==
                IF Captured(q, q.idx) THEN go([q EXCEPT !.stage = "afterFrame"])
                ELSE seekVideo(SetClip(W, c, q), c, q.idx, ch)
        IN
        IF r.stage = "top" THEN
            IF r.idx >= P THEN finish(r)
            ELSE IF ch.truncate THEN finish([r EXCEPT !.truncatedByBudget = TRUE])
            ELSE IF r.idx % GIF_FRAME_YIELD_INTERVAL = 0 THEN yieldToEventLoop(W, c)
            ELSE frame(r)
        ELSE IF r.stage = "afterYield" THEN frame(r)
        ELSE go([r EXCEPT !.out = IF ch.flush THEN Append(@, r.pending) ELSE @,
                          !.pending = r.idx,
                          !.idx = @ + 1,
                          !.stage = "top"])

(* ---- blob(), _renderGif ---- *)

\* start: what _frameTimestamps plans for the video at hand (frameCount) and
\* whether canvas.getContext('2d') delivers a context (ctxOk)

\* _renderGif after `await this._videoElement(this._file)`
renderGif(W, c, start, ch) ==
    LET r == W.clip[c]
        P == start.frameCount
        q == [r EXCEPT !.rVideo = r.video,
                       !.canvas = IF @ = 0 THEN c ELSE @,
                       !.rCanvas = IF r.canvas = 0 THEN c ELSE r.canvas]
    IN  IF ~start.ctxOk
            THEN SetClip(W, c, rejectBlob(q, <<"Could not create image context">>))
            ELSE Advance(SetClip(W, c,
                    [q EXCEPT !.planned = P,
                              !.shots = [i \in 1..P |-> Hole],
                              !.phase = IF P = 1 THEN "single"
                                        ELSE IF gifOptions.detectMotion THEN "first"
                                        ELSE "plain",
                              !.stage = "top", !.idx = 0]), c, ch)

World == [clip |-> clip, video |-> video]

Becomes(W) == clip' = W.clip /\ video' = W.video

(* ---- WebmFileMediaFragmentData: _renderWebm, _seekVideo ---- *)

\* frame callbacks of one recording that find the end not yet reached
MaxWebmFrames == 2

\* what the platform offers a WebM render: a supported mime type and
\* MediaRecorder (supported), captureStream and a 2d context (ctxOk), a
\* MediaRecorder constructor that accepts the stream (recorderOk)
WebmStarts == [supported : BOOLEAN, ctxOk : BOOLEAN, recorderOk : BOOLEAN]

\* the finally block of _renderWebm, then what the try block left behind: the
\* blob it returns (e = NoError) or the error it throws
webmFinally(W, c, blob, e) ==
    LET r == W.clip[c]
        v == r.rVideo
        W1 == [W EXCEPT !.video[v] = [@ EXCEPT
                        \* clearScheduledFrame(); video.pause()
                        !.callback = FALSE,
                        !.paused = TRUE,
                        !.playbackRate = r.savedPlaybackRate,
                        !.muted = r.savedMuted,
                        !.volume = r.savedVolume,
                        !.onerror = r.savedOnError,
                        !.onended = r.savedOnEnded]]
    IN  IF r.recorder = "recording"
            \* mediaRecorder.stop(); await stopRecorder?.catch(() => undefined)
            THEN SetClip(W1, c, [r EXCEPT !.recorder = "inactive",
                                          !.pendingError = e,
                                          !.pc = "finallyStopping"])
        ELSE IF e = NoError
            THEN SetClip(W1, c, resolveBlob(r, blob))
            ELSE SetClip(W1, c, rejectBlob(r, e))

\* the rest of the try block after `await this._seekVideo(...)`: drawFrame(),
\* mute, `await video.play()`
webmAfterSeek(W, c) ==
    LET v == W.clip[c].rVideo
        W1 == [W EXCEPT !.video[v] = [@ EXCEPT !.muted = TRUE, !.volume = 0,
                                               !.playbackRate = 100, !.paused = FALSE]]
    IN  SetClip(W1, c, [W.clip[c] EXCEPT !.pc = "playing"])

\* _seekVideo(video, startTimestampMs / 1000) of the WebM clip
webmSeekVideo(W, c) ==
    LET r == [W.clip[c] EXCEPT !.pc = "seeking"]
        v == r.rVideo
        vid == W.video[v]
    IN  IF vid.currentTime = TargetTime(r, 0)
            THEN webmAfterSeek([clip |-> [W.clip EXCEPT ![c] = r],
                                video |-> [W.video EXCEPT ![v] =
                                    [vid EXCEPT !.onseeked = 0, !.onerror = 0]]], c)
            ELSE [clip |-> [W.clip EXCEPT ![c] = r],
                  video |-> [W.video EXCEPT ![v] =
                        [vid EXCEPT !.onseeked = c, !.onerror = c,
                                    !.currentTime = TargetTime(r, 0),
                                    !.seeking = (vid.status = "live")]]]

\* _renderWebm after `await this._videoElement(this._file)`
webmSetup(W, c, start) ==
    LET r == W.clip[c]
        v == r.video
        q == [r EXCEPT !.rVideo = v,
                       !.canvas = IF @ = 0 THEN c ELSE @,
                       !.rCanvas = IF r.canvas = 0 THEN c ELSE r.canvas,
                       !.savedPlaybackRate = W.video[v].playbackRate,
                       !.savedMuted = W.video[v].muted,
                       !.savedVolume = W.video[v].volume,
                       !.savedOnError = W.video[v].onerror,
                       !.savedOnEnded = W.video[v].onended]
    IN  IF ~start.ctxOk
            THEN SetClip(W, c, rejectBlob(q, <<"Could not create MediaFragment context">>))
        ELSE IF ~start.recorderOk
            THEN webmFinally(SetClip(W, c, q), c, "none", <<"MediaRecorder">>)
        ELSE webmSeekVideo(SetClip(W, c, [q EXCEPT !.recorder = "inactive",
                                                   !.stopRecorder = "pending"]), c)

\* _renderWebm from its first line
renderWebm(W, c, start) ==
    LET r == W.clip[c]
    IN  IF ~start.supported
            THEN SetClip(W, c, rejectBlob(r, <<"WebM capture is not supported in this browser">>))
        ELSE IF r.video = 0
            THEN SetClip(W, c, [r EXCEPT !.pc = "createVideo"])
        ELSE webmSetup(W, c, start)

\* finish() of the frame loop, then video.pause(), mediaRecorder.stop() and
\* `await stopRecorder`
webmFinish(W, c) ==
    LET r == W.clip[c]
        W1 == [W EXCEPT !.video[r.rVideo] = [@ EXCEPT !.callback = FALSE, !.paused = TRUE]]
    IN  IF r.stopRecorder = "rejected"
            THEN webmFinally(W1, c, "none", <<"Could not encode WebM">>)
            ELSE SetClip(W1, c, [r EXCEPT !.recorder = "inactive", !.pc = "stopping"])

\* blob() without `if (this._blobPromise) return await this._blobPromise`
BlobWithoutPromiseCheck(c, start, ch) ==
    LET r == clip[c]
    IN  /\ r.kind = "gif"
        /\ UNCHANGED <<workerVars, pureVars, gifOptions>>
        /\ IF r.cachedBlob # "none" THEN
                Becomes(SetClip(World, c, [r EXCEPT !.calls = @ \cup {"cached"}]))
           ELSE LET q == [r EXCEPT !.blobPromise = IF @ = "none" THEN "pending" ELSE @,
                                   !.blobPromiseReject = TRUE,
                                   !.renders = @ + 1]
                IN  IF r.video = 0
                        THEN Becomes(SetClip(World, c, [q EXCEPT !.pc = "createVideo"]))
                        ELSE Becomes(renderGif(SetClip(World, c, q), c, start, ch))

\* async blob()
Blob(c, start, ch) ==
    LET r == clip[c]
    IN  /\ r.kind = "gif"
        /\ UNCHANGED <<workerVars, pureVars, gifOptions>>
        /\ IF r.cachedBlob # "none" THEN
                Becomes(SetClip(World, c, [r EXCEPT !.calls = @ \cup {"cached"}]))
           ELSE IF r.blobPromise # "none" THEN
                Becomes(SetClip(World, c,
                    [r EXCEPT !.calls = IF r.blobPromise = "pending" THEN @ \cup {"shared"} ELSE @]))
           ELSE LET q == [r EXCEPT !.blobPromise = "pending", !.blobPromiseReject = TRUE,
                                   !.renders = @ + 1]
                IN  IF r.video = 0
                        THEN Becomes(SetClip(World, c, [q EXCEPT !.pc = "createVideo"]))
                        ELSE Becomes(renderGif(SetClip(World, c, q), c, start, ch))

\* createVideoElement settles: this._video = await createVideoElement(file.blobUrl)
VideoElementReady(c, ok, start, ch) ==
    /\ clip[c].kind = "gif"
    /\ clip[c].pc = "createVideo"
    /\ UNCHANGED <<workerVars, pureVars, gifOptions>>
    /\ IF ok
          THEN Becomes(renderGif(
                    [clip |-> [clip EXCEPT ![c].video = c],
                     video |-> [video EXCEPT ![c] = [NoVideo EXCEPT !.status = "live"]]],
                    c, start, ch))
          ELSE Becomes(SetClip(World, c,
                    rejectBlob(clip[c], <<"Could not initialize video for image capture">>)))

\* the element fires seeked: the onseeked installed last runs
\* (resolveWithCleanup) and the render that awaits it draws and goes on
Seeked(v, ch) ==
    /\ video[v].status = "live"
    /\ video[v].seeking
    /\ UNCHANGED <<workerVars, pureVars, gifOptions>>
    /\ LET c == video[v].onseeked
           W0 == [clip |-> clip, video |-> [video EXCEPT ![v].seeking = FALSE]]
       IN  IF c = 0 THEN Becomes(W0)
           ELSE LET W1 == [W0 EXCEPT !.video[v].onseeked = 0, !.video[v].onerror = 0]
                IN  IF clip[c].pc = "seeking" /\ clip[c].rVideo = v
                        THEN IF clip[c].kind = "webm"
                                THEN Becomes(webmAfterSeek(W1, c))
                                ELSE Becomes(Advance(drawFrame(W1, c), c, ch))
                        ELSE Becomes(W1)

\* the element fires error: the onerror installed last rejects its seek
VideoError(v) ==
    /\ video[v].status = "live"
    /\ video[v].onerror # 0
    /\ UNCHANGED <<workerVars, pureVars, gifOptions>>
    /\ LET c == video[v].onerror
           W0 == [clip |-> clip, video |-> [video EXCEPT ![v].seeking = FALSE]]
       IN  IF clip[c].kind = "webm" /\ clip[c].pc \in {"seeking", "recording"} /\ clip[c].rVideo = v
               THEN Becomes(webmFinally(W0, c, "none",
                        IF clip[c].pc = "seeking"
                            THEN <<"Could not seek video to create WebM">>
                            ELSE <<"Could not play video to capture WebM">>))
           ELSE IF clip[c].kind = "gif" /\ clip[c].pc = "seeking" /\ clip[c].rVideo = v
               THEN Becomes(SetClip(W0, c,
                        rejectBlob(clip[c], <<"Could not seek video to create GIF">>)))
               ELSE Becomes(W0)

\* the timer of yieldToEventLoop fires
Yielded(c, ch) ==
    /\ clip[c].pc = "yield"
    /\ UNCHANGED <<workerVars, pureVars, gifOptions>>
    /\ Becomes(Advance(World, c, ch))

WorkerPcs == {"jpegWorker", "encodeWorker", "coordinatorWorker", "poolWorkers"}

\* the worker factory settles
WorkerReady(c, ok) ==
    /\ clip[c].pc \in WorkerPcs
    /\ UNCHANGED <<workerVars, pureVars, gifOptions, video>>
    /\ clip' = [clip EXCEPT ![c] = IF ok THEN workerCreated(@) ELSE workerFactoryFailed(@)]

\* a response or an error event of worker w of clip c's render arrives
WorkerArrives(c, w, arrival) ==
    /\ clip[c].workers[w].status = "live"
    /\ clip[c].workers[w].req # NoReq
    /\ clip[c].workers[w].handler
    /\ UNCHANGED <<workerVars, pureVars, gifOptions, video>>
    /\ \E palette \in IF clip[c].workers[w].req.command = "quantizePalette" /\ arrival = "quantizedPalette"
                         THEN Palettes ELSE {0} :
            clip' = [clip EXCEPT ![c] = workerArrival(@, w, arrival, palette)]

FreeClips == {n \in Clips : clip[n].kind = "none"}

\* atTimestamp(timestamp)
atTimestamp(c, timestamp) ==
    /\ clip[c].kind # "none"
    /\ UNCHANGED <<workerVars, pureVars, gifOptions, video>>
    /\ IF timestamp = clip[c].startTimestamp
          THEN UNCHANGED clip
          ELSE /\ FreeClips # {}
               /\ LET n == CHOOSE m \in FreeClips : \A k \in FreeClips : m <= k
                  IN  clip' = [clip EXCEPT
                        ![c] = cancelBlob(@),
                        ![n] = NewClip(clip[c].kind, timestamp, clip[c].video, clip[c].canvas)]

\* disposeVideoElement(video): removeAttribute('src'); load(); remove().
\* load() ends a seek, pauses the element and resets its playbackRate
disposeVideoElement(videos, v) ==
    IF v = 0 THEN videos
    ELSE [videos EXCEPT ![v].status = "disposed", ![v].seeking = FALSE,
                        ![v].currentTime = ZeroTime,
                        ![v].paused = TRUE, ![v].playbackRate = 100]

\* dispose() that only releases the element
disposeWithoutReject(c) ==
    /\ clip[c].kind # "none"
    /\ UNCHANGED <<workerVars, pureVars, gifOptions>>
    /\ video' = disposeVideoElement(video, clip[c].video)
    /\ clip' = [clip EXCEPT ![c] = [@ EXCEPT !.video = 0]]

\* dispose()
dispose(c) ==
    /\ clip[c].kind # "none"
    /\ UNCHANGED <<workerVars, pureVars, gifOptions>>
    /\ video' = disposeVideoElement(video, clip[c].video)
    /\ clip' = [clip EXCEPT ![c] = [cancelBlob(@) EXCEPT !.video = 0]]

(* ---- calls and events of a WebM clip ---- *)

\* async blob() of WebmFileMediaFragmentData
WebmBlob(c, start) ==
    LET r == clip[c]
    IN  /\ r.kind = "webm"
        /\ UNCHANGED <<workerVars, pureVars, gifOptions>>
        /\ IF r.cachedBlob # "none" THEN
                Becomes(SetClip(World, c, [r EXCEPT !.calls = @ \cup {"cached"}]))
           ELSE IF r.blobPromise # "none" THEN
                Becomes(SetClip(World, c,
                    [r EXCEPT !.calls = IF r.blobPromise = "pending" THEN @ \cup {"shared"} ELSE @]))
           ELSE Becomes(renderWebm(SetClip(World, c,
                    [r EXCEPT !.blobPromise = "pending", !.blobPromiseReject = TRUE,
                              !.outputExtension = "webm",
                              !.renders = @ + 1]), c, start))

\* createVideoElement settles for a WebM clip
WebmVideoElementReady(c, ok, start) ==
    /\ clip[c].kind = "webm"
    /\ clip[c].pc = "createVideo"
    /\ UNCHANGED <<workerVars, pureVars, gifOptions>>
    /\ IF ok
          THEN Becomes(webmSetup(
                    [clip |-> [clip EXCEPT ![c].video = c],
                     video |-> [video EXCEPT ![c] = [NoVideo EXCEPT !.status = "live"]]],
                    c, start))
          ELSE Becomes(SetClip(World, c,
                    rejectBlob(clip[c], <<"Could not initialize video for image capture">>)))

\* the promise of video.play() settles
PlaySettles(c, ok) ==
    /\ clip[c].kind = "webm"
    /\ clip[c].pc = "playing"
    /\ UNCHANGED <<workerVars, pureVars, gifOptions>>
    /\ IF ok
          \* mediaRecorder.start(); video.onerror = ...; video.onended = ...; schedule(onFrame)
          THEN Becomes([clip |-> [clip EXCEPT ![c] = [@ EXCEPT !.recorder = "recording",
                                                              !.idx = 0,
                                                              !.pc = "recording"]],
                        video |-> [video EXCEPT ![clip[c].rVideo] =
                                        [@ EXCEPT !.onerror = c, !.onended = c,
                                                  !.callback = TRUE]]])
          ELSE Becomes(webmFinally(World, c, "none", <<"play() rejected">>))

\* the scheduled frame callback runs: onFrame
WebmFrame(c, done) ==
    /\ clip[c].kind = "webm"
    /\ clip[c].pc = "recording"
    /\ done \/ clip[c].idx < MaxWebmFrames
    /\ UNCHANGED <<workerVars, pureVars, gifOptions>>
    /\ IF done
          THEN Becomes(webmFinish(World, c))
          ELSE Becomes(SetClip(World, c, [clip[c] EXCEPT !.idx = @ + 1]))

\* the element fires ended: the onended installed last runs
VideoEnded(v) ==
    /\ video[v].status = "live"
    /\ video[v].onended # 0
    /\ UNCHANGED <<workerVars, pureVars, gifOptions>>
    /\ LET c == video[v].onended
       IN  IF clip[c].pc = "recording" /\ clip[c].rVideo = v
               THEN Becomes(webmFinish(World, c))
               ELSE Becomes(World)

\* the recorder fires stop: stopRecorder resolves with the blob of the chunks
RecorderStopped(c, empty) ==
    /\ clip[c].pc \in {"stopping", "finallyStopping"}
    /\ clip[c].stopRecorder = "pending"
    /\ UNCHANGED <<workerVars, pureVars, gifOptions>>
    /\ LET r == [clip[c] EXCEPT !.stopRecorder = "resolved"]
           W == SetClip(World, c, r)
       IN  IF r.pc = "finallyStopping"
               THEN Becomes(SetClip(W, c, rejectBlob(r, r.pendingError)))
           ELSE IF empty
               THEN Becomes(webmFinally(W, c, "none", <<"Could not encode WebM from local video">>))
               ELSE Becomes(webmFinally(W, c, "webm", NoError))

\* the recorder fires error: stopRecorder rejects and the recorder goes inactive
RecorderError(c) ==
    /\ clip[c].stopRecorder = "pending"
    /\ clip[c].pc \in {"recording", "stopping", "finallyStopping"}
    /\ UNCHANGED <<workerVars, pureVars, gifOptions>>
    /\ LET r == [clip[c] EXCEPT !.stopRecorder = "rejected", !.recorder = "inactive"]
           W == SetClip(World, c, r)
       IN  IF r.pc = "finallyStopping"
               THEN Becomes(SetClip(W, c, rejectBlob(r, r.pendingError)))
           ELSE IF r.pc = "stopping"
               THEN Becomes(webmFinally(W, c, "none", <<"Could not encode WebM">>))
               ELSE Becomes(W)

----------------------------------------------------------------------------
(* Frame timestamp planner: image.ts, the constructor and _frameTimestamps *)

DEFAULT_GIF_DURATION_MS == 1500
\* GIF_OPTION_LIMITS.minDurationMs
MIN_DURATION_MS == 300
\* DEFAULT_GIF_OPTIONS.maxDurationMs
DEFAULT_MAX_DURATION_MS == 2500

Abs(a) == IF a >= 0 THEN a ELSE -a

\* const clamp = (value, min, max) => Math.max(min, Math.min(max, value))
clamp(value, min, max) == Max(min, Min(max, value))

\* A timestamp in milliseconds as the fraction num / den, den > 0
Rat(num, den) == [num |-> num, den |-> den]
RatLeq(a, b) == a.num * b.den <= b.num * a.den
RatEq(a, b) == a.num * b.den = b.num * a.den
\* A value a caller or the browser provides: type is "undefined", "boolean",
\* "string", "NaN", "Infinity", "-Infinity", or "number" for the finite
\* number num / den (den > 0); a boolean is true when num = 1
RawValue(type, num, den) == [type |-> type, num |-> num, den |-> den]

\* video.duration: a finite number of milliseconds, or NaN / Infinity
FiniteDuration(ms) == [finite |-> TRUE, ms |-> ms]
UnknownDuration == [finite |-> FALSE, ms |-> 0]

\* the duration of the interval without the clamp to the limits
durationFromIntervalUnclamped(startTimestamp, endTimestamp, options) ==
    LET duration == Abs(endTimestamp - startTimestamp)
    IN  IF duration > 0 THEN duration ELSE DEFAULT_GIF_DURATION_MS

durationFromInterval(startTimestamp, endTimestamp, options) ==
    LET duration == Abs(endTimestamp - startTimestamp)
        resolvedDuration == IF duration > 0 THEN duration ELSE DEFAULT_GIF_DURATION_MS
    IN  clamp(resolvedDuration, MIN_DURATION_MS, options.maxDurationMs)

\* const step = durationMs / (frameCount - 1), in units of 1 / StepGrid ms:
\* the division rounds to the nearest representable number
step(durationMs, frameCount) == RoundDiv(durationMs * StepGrid, frameCount - 1)

\* the planner without the cap of maxFrames
frameTimestampsUncapped(startTimestamp, durationMs, options, videoDuration) ==
    LET maxVideoDurationMs == IF videoDuration.finite
                                THEN Max(0, videoDuration.ms)
                                ELSE startTimestamp + durationMs
        start == clamp(startTimestamp, 0, maxVideoDurationMs)
        end == clamp(start + durationMs, start, maxVideoDurationMs)
        d == Max(0, end - start)
        frameCount == Max(1, (d * options.fps) \div 1000 + 1)
    IN  IF frameCount = 1
            THEN <<Rat(start, 1)>>
            ELSE [i \in 1..frameCount |->
                    Rat(start * StepGrid + step(d, frameCount) * (i - 1), StepGrid)]

\* the planner without the clamp to the duration of the source
frameTimestampsUnclamped(startTimestamp, durationMs, options, videoDuration) ==
    LET maxVideoDurationMs == startTimestamp + durationMs
        start == clamp(startTimestamp, 0, maxVideoDurationMs)
        end == clamp(start + durationMs, start, maxVideoDurationMs)
        d == Max(0, end - start)
        frameCount == Max(1, Min(options.maxFrames, (d * options.fps) \div 1000 + 1))
    IN  IF frameCount = 1
            THEN <<Rat(start, 1)>>
            ELSE [i \in 1..frameCount |->
                    Rat(start * StepGrid + step(d, frameCount) * (i - 1), StepGrid)]

\* _frameTimestamps(videoDurationSeconds), in milliseconds:
\* timestamps[i] = start + step * i with step = durationMs / (frameCount - 1)
frameTimestamps(startTimestamp, durationMs, options, videoDuration) ==
    LET maxVideoDurationMs == IF videoDuration.finite
                                THEN Max(0, videoDuration.ms)
                                ELSE startTimestamp + durationMs
        start == clamp(startTimestamp, 0, maxVideoDurationMs)
        end == clamp(start + durationMs, start, maxVideoDurationMs)
        d == Max(0, end - start)
        frameCount == Max(1, Min(options.maxFrames, (d * options.fps) \div 1000 + 1))
    IN  IF frameCount = 1
            THEN <<Rat(start, 1)>>
            ELSE [i \in 1..frameCount |->
                    Rat(start * StepGrid + step(d, frameCount) * (i - 1), StepGrid)]

\* _seekVideo(video, timestamp): the position the element is asked to seek to
seekTo(timestamp, videoDuration) ==
    LET maxTimestamp == IF videoDuration.finite
                            THEN Rat(videoDuration.ms, 1)
                            ELSE timestamp
        low == IF RatLeq(maxTimestamp, timestamp) THEN maxTimestamp ELSE timestamp
    IN  IF RatLeq(low, Rat(0, 1)) THEN Rat(0, 1) ELSE low

NoPlan ==
    [pc |-> "none", startTimestamp |-> 0, endTimestamp |-> 0,
     options |-> [fps |-> 1, maxFrames |-> 1, maxDurationMs |-> MIN_DURATION_MS],
     videoDuration |-> UnknownDuration,
     start |-> 0, durationMs |-> 0,
     timestamps |-> <<>>, seeks |-> <<>>]

\* new GifFileImageData(file, startTimestamp, endTimestamp, ..., gifOptions)
\* whose video element will report videoDuration once loaded
PlannedClip(startTimestamp, endTimestamp, options, videoDuration) ==
    [NoPlan EXCEPT !.pc = "constructed",
                   !.startTimestamp = startTimestamp,
                   !.endTimestamp = endTimestamp,
                   !.options = options,
                   !.videoDuration = videoDuration,
                   !.start = Max(0, startTimestamp),
                   !.durationMs = durationFromInterval(startTimestamp, endTimestamp, options)]

\* _renderGif: const frameTimestamps = this._frameTimestamps(video.duration)
PlanFrames ==
    /\ plan.pc = "constructed"
    /\ plan' = [plan EXCEPT !.pc = "planned",
                            !.timestamps = frameTimestamps(plan.start, plan.durationMs,
                                                           plan.options, plan.videoDuration)]
    /\ UNCHANGED <<workerVars, clipVars, data, factory, col, pb, card, element>>

\* _captureFrameBuffer(video, ..., timestampMs) of the next planned frame:
\* await this._seekVideo(video, timestampMs / 1000)
PlanSeek ==
    /\ plan.pc = "planned"
    /\ Len(plan.seeks) < Len(plan.timestamps)
    /\ plan' = [plan EXCEPT !.seeks =
                    Append(@, seekTo(plan.timestamps[Len(plan.seeks) + 1], plan.videoDuration))]
    /\ UNCHANGED <<workerVars, clipVars, data, factory, col, pb, card, element>>

----------------------------------------------------------------------------
(* Frame collection with the pixels and the clock: image.ts, motionScore,  *)
(* requiredDelayMsForMotionScore and _collectFrames                        *)

MIN_GIF_FRAME_DELAY_MS == 20
GIF_MOTION_SCORE_JPEG_CUTOFF == 50
GIF_MOTION_SCORE_MAX_FPS == 200
GIF_MOTION_NEW_DRAWING_THRESHOLD == 4
GIF_MOTION_EARLY_JPEG_MAX_SCORE == 8
GIF_MOTION_SLOW_SCENE_MIN_DELAY_MS == 100
\* GIF_MOTION_COLLECTION_BUDGET_MULTIPLIER = 0.9, in tenths
GIF_MOTION_COLLECTION_BUDGET_MULTIPLIER_TENTHS == 9
GIF_MOTION_COLLECTION_BUDGET_PADDING_MS == 500
GIF_MOTION_COLLECTION_BUDGET_MIN_MS == 1200
GIF_MOTION_SAMPLE_STRIDE == 4

\* The RGBA bytes of a frame of FramePixels pixels, every pixel of one gray
\* level and opaque
GrayFrame(level) == [k \in 1..(4 * FramePixels) |-> IF k % 4 = 0 THEN 255 ELSE level]

\* What the video shows at the i-th planned timestamp
SceneLevel(scene, i) ==
    CASE scene = "static" -> 0
      [] scene = "strong" -> IF i % 2 = 0 THEN 0 ELSE 255
      [] scene = "mild"   -> IF i % 2 = 0 THEN 0 ELSE 20
      [] scene = "slight" -> IF i % 2 = 0 THEN 0 ELSE 1
      [] scene = "flash"  -> IF i = 1 THEN 255 ELSE 0

\* ctx.getImageData(...).data.buffer after the seek to frame i
FrameAt(scene, i) == GrayFrame(SceneLevel(scene, i))

RECURSIVE sampledDiff(_, _, _, _, _)
\* the for loop of motionScore from byte offset i: <<diff, sampledPixelCount>>
sampledDiff(previous, current, i, pixelStep, maxLength) ==
    IF i + 2 < maxLength
        THEN LET rest == sampledDiff(previous, current, i + pixelStep, pixelStep, maxLength)
             IN  <<rest[1] + Abs(previous[i + 1] - current[i + 1])
                           + Abs(previous[i + 2] - current[i + 2])
                           + Abs(previous[i + 3] - current[i + 3]),
                   rest[2] + 1>>
        ELSE <<0, 0>>

\* motionScore gives the score 0 to every pair of frames
motionScoreZero(previous, current, sampleStride) == Rat(0, 1)

\* motionScore gives the highest score to every pair of frames
motionScoreSaturated(previous, current, sampleStride) == Rat(3 * 255, 1)

\* motionScore(previous, current, sampleStride), as a fraction
motionScore(previous, current, sampleStride) ==
    LET pixelStep == Max(1, sampleStride) * 4
        maxLength == Min(Len(previous), Len(current))
        sums == sampledDiff(previous, current, 0, pixelStep, maxLength)
    IN  IF sums[2] = 0 THEN Rat(0, 1) ELSE Rat(sums[1], sums[2])

\* score + other
RatAdd(a, b) ==
    IF a.den = b.den THEN Rat(a.num + b.num, a.den)
    ELSE Rat(a.num * b.den + b.num * a.den, a.den * b.den)

\* the delay that goes from the fast delay at the cutoff to the slow delay at
\* the top score
requiredDelayMsRising(score, baseFrameDelayMs) ==
    LET fastDelayMs == Max(MIN_GIF_FRAME_DELAY_MS, baseFrameDelayMs)
        slowDelayMs == Max(fastDelayMs, GIF_MOTION_SLOW_SCENE_MIN_DELAY_MS)
        span == GIF_MOTION_SCORE_MAX_FPS - GIF_MOTION_SCORE_JPEG_CUTOFF
    IN  IF RatLeq(Rat(GIF_MOTION_SCORE_MAX_FPS, 1), score) THEN fastDelayMs
        ELSE IF RatLeq(score, Rat(GIF_MOTION_SCORE_JPEG_CUTOFF, 1)) THEN slowDelayMs
        ELSE Max(MIN_GIF_FRAME_DELAY_MS,
                 RoundDiv(fastDelayMs * span * score.den
                            + (score.num - GIF_MOTION_SCORE_JPEG_CUTOFF * score.den)
                                * (slowDelayMs - fastDelayMs),
                          span * score.den))

\* requiredDelayMsForMotionScore(score, baseFrameDelayMs)
requiredDelayMsForMotionScore(score, baseFrameDelayMs) ==
    LET fastDelayMs == Max(MIN_GIF_FRAME_DELAY_MS, baseFrameDelayMs)
        slowDelayMs == Max(fastDelayMs, GIF_MOTION_SLOW_SCENE_MIN_DELAY_MS)
        span == GIF_MOTION_SCORE_MAX_FPS - GIF_MOTION_SCORE_JPEG_CUTOFF
    IN  IF RatLeq(Rat(GIF_MOTION_SCORE_MAX_FPS, 1), score) THEN fastDelayMs
        ELSE IF RatLeq(score, Rat(GIF_MOTION_SCORE_JPEG_CUTOFF, 1)) THEN slowDelayMs
        ELSE Max(MIN_GIF_FRAME_DELAY_MS,
                 RoundDiv(slowDelayMs * span * score.den
                            - (score.num - GIF_MOTION_SCORE_JPEG_CUTOFF * score.den)
                                * (slowDelayMs - fastDelayMs),
                          span * score.den))

\* the delay that divides the duration by the number of frames, as
\* _frameDelayMs of an earlier version of the class does
baseFrameDelayMsPerFrame(durationMs, frameCount) ==
    Max(MIN_GIF_FRAME_DELAY_MS, RoundDiv(durationMs, Max(1, frameCount)))

\* _renderGif: baseFrameDelayMs
baseFrameDelayMs(durationMs, frameCount) ==
    IF frameCount <= 1 THEN durationMs
    ELSE Max(MIN_GIF_FRAME_DELAY_MS, RoundDiv(durationMs, frameCount - 1))

\* Math.round(frameTimestamps[i] - frameTimestamps[j]) for j <= i
roundedGap(q, i, j) == RoundDiv(q.durationMs * (i - j), q.planned - 1)

\* setMotionCollectionBudgetMs(ms), or never called
NoBudgetOverride == [defined |-> FALSE, ms |-> 0]
BudgetOverride(ms) == [defined |-> TRUE, ms |-> Max(0, ms)]

\* _collectFrames: collectionBudgetMs
collectionBudgetMs(durationMs, override) ==
    LET defaultCollectionBudgetMs ==
            Max(GIF_MOTION_COLLECTION_BUDGET_MIN_MS,
                RoundDiv(durationMs * GIF_MOTION_COLLECTION_BUDGET_MULTIPLIER_TENTHS
                            + 10 * GIF_MOTION_COLLECTION_BUDGET_PADDING_MS, 10))
    IN  IF ~override.defined THEN defaultCollectionBudgetMs
        ELSE Max(GIF_MOTION_COLLECTION_BUDGET_MIN_MS,
                 Min(defaultCollectionBudgetMs, override.ms))

\* collection with the test of the budget left out
overBudgetNever(q) == FALSE

\* the test at the head of the main loop:
\* now() - collectionStartedAtMs >= collectionBudgetMs
overBudget(q) == q.clock >= q.budgetMs

NoCol ==
    [pc |-> "none", scene |-> "static", durationMs |-> 0, planned |-> 0,
     fps |-> 1, maxFrames |-> 1, earlyProbe |-> FALSE,
     detectMotion |-> TRUE, createJpegIfMotionIsLow |-> TRUE,
     override |-> NoBudgetOverride, captureMs |-> 0,
     budgetMs |-> 0, clock |-> 0, preCaptured |-> {}, captures |-> 0, i |-> 0,
     previousFrame |-> 0, pending |-> 0, lastFlushed |-> 0,
     frameBuffers |-> <<>>, frameDelayMs |-> <<>>,
     scoreTotal |-> Rat(0, 1), scoreMax |-> Rat(0, 1), comparisons |-> 0,
     probeMax |-> Rat(0, 1),
     truncatedByBudget |-> "undefined", motionDetected |-> "undefined",
     outputExtension |-> "gif",
     hardwareConcurrency |-> RawValue("undefined", 0, 1), nWorkers |-> 0]

\* A clip of durationMs on a source that covers it, whose video shows the
\* scene and takes captureMs to seek and read back one frame
CollectedClip(scene, durationMs, options, override, captureMs) ==
    [NoCol EXCEPT !.pc = "start", !.scene = scene, !.durationMs = durationMs,
                  !.planned = Len(frameTimestamps(0, durationMs, options, UnknownDuration)),
                  !.fps = options.fps, !.maxFrames = options.maxFrames,
                  !.detectMotion = options.detectMotion,
                  !.createJpegIfMotionIsLow = options.createJpegIfMotionIsLow,
                  !.override = override, !.captureMs = captureMs]

\* the frames collected are always encoded as a GIF
collectedFramesAsGif(q, frameBuffers, delays, truncatedByBudget, motionDetected) ==
    [q EXCEPT !.pc = "done", !.frameBuffers = frameBuffers, !.frameDelayMs = delays,
              !.truncatedByBudget = truncatedByBudget, !.motionDetected = motionDetected,
              !.outputExtension = "gif"]

\* the delay of the last frame is left out of the result
collectedFramesWithoutLastDelay(q, frameBuffers, delays, truncatedByBudget, motionDetected) ==
    [q EXCEPT !.pc = "done", !.frameBuffers = frameBuffers,
              !.frameDelayMs = SubSeq(delays, 1, Len(delays) - 1),
              !.truncatedByBudget = truncatedByBudget, !.motionDetected = motionDetected,
              !.outputExtension = IF Len(frameBuffers) = 1 THEN "jpeg" ELSE "gif"]

\* _renderGifInWorker, on the frames collected: one frame is a JPEG
collectedFrames(q, frameBuffers, delays, truncatedByBudget, motionDetected) ==
    [q EXCEPT !.pc = "done", !.frameBuffers = frameBuffers, !.frameDelayMs = delays,
              !.truncatedByBudget = truncatedByBudget, !.motionDetected = motionDetected,
              !.outputExtension = IF Len(frameBuffers) = 1 THEN "jpeg" ELSE "gif"]

\* await this._captureFrameBuffer(video, ctx, width, height, frameTimestamps[index])
captureFrameBuffer(q, index) ==
    [q EXCEPT !.clock = @ + q.captureMs, !.captures = @ + 1,
              !.preCaptured = @ \cup {index}]

probeIndexes(q) ==
    evenlySpacedIndexes(q.planned, Min(q.planned, GIF_MOTION_PROBE_FRAME_COUNT))

RECURSIVE probeTotals(_, _)
\* the second loop over probeIndexes, from k on: <<probeScoreTotal, probeScoreMax>>
probeTotals(q, k) ==
    IF k > Len(probeIndexes(q)) THEN <<Rat(0, 1), Rat(0, 1)>>
    ELSE LET rest == probeTotals(q, k + 1)
             score == motionScore(FrameAt(q.scene, probeIndexes(q)[k - 1]),
                                  FrameAt(q.scene, probeIndexes(q)[k]),
                                  GIF_MOTION_SAMPLE_STRIDE)
         IN  <<RatAdd(score, rest[1]), IF RatLeq(rest[2], score) THEN score ELSE rest[2]>>

\* frameTimestamps.length === 1
CollectSingle ==
    /\ col.pc = "start" /\ col.planned = 1
    /\ col' = collectedFrames(captureFrameBuffer(col, 0), <<0>>,
                              <<baseFrameDelayMs(col.durationMs, col.planned)>>,
                              "undefined", "undefined")
    /\ UNCHANGED <<workerVars, clipVars, data, factory, plan, pb, card, element>>

\* !this._gifOptions.detectMotion: _captureFrameBuffers captures every frame
CollectEvery ==
    /\ col.pc \in {"start", "every"} /\ col.planned > 1 /\ ~col.detectMotion
    /\ LET q == captureFrameBuffer(col, col.i)
           frames == Append(col.frameBuffers, col.i)
       IN  col' = IF col.i + 1 < col.planned
                    THEN [q EXCEPT !.pc = "every", !.i = @ + 1, !.frameBuffers = frames]
                    ELSE collectedFrames(q, frames,
                            [k \in 1..Len(frames) |->
                                baseFrameDelayMs(col.durationMs, col.planned)],
                            "undefined", "undefined")
    /\ UNCHANGED <<workerVars, clipVars, data, factory, plan, pb, card, element>>

\* the first frame is captured, then the clock of the budget starts
CollectFirst ==
    /\ col.pc = "start" /\ col.planned > 1 /\ col.detectMotion
    /\ col' = [captureFrameBuffer(col, 0) EXCEPT
                    !.pc = "probe", !.clock = 0,
                    !.budgetMs = collectionBudgetMs(col.durationMs, col.override)]
    /\ UNCHANGED <<workerVars, clipVars, data, factory, plan, pb, card, element>>

\* the first loop over probeIndexes: the next probe frame not yet captured
ProbeCapture ==
    /\ col.pc = "probe"
    /\ \E k \in 1..Len(probeIndexes(col)) :
        /\ probeIndexes(col)[k] \notin col.preCaptured
        /\ \A j \in 1..(k - 1) : probeIndexes(col)[j] \in col.preCaptured
        /\ col' = captureFrameBuffer(col, probeIndexes(col)[k])
    /\ UNCHANGED <<workerVars, clipVars, data, factory, plan, pb, card, element>>

\* the probe scores and the early exit
ProbeDecide ==
    /\ col.pc = "probe"
    /\ \A k \in 1..Len(probeIndexes(col)) : probeIndexes(col)[k] \in col.preCaptured
    /\ LET totals == probeTotals(col, 2)
           comparisons == Len(probeIndexes(col)) - 1
           q == [col EXCEPT !.probeMax = totals[2]]
       IN  col' = IF /\ col.createJpegIfMotionIsLow
                     /\ RatLeq(totals[1], Rat(GIF_MOTION_SCORE_JPEG_CUTOFF * comparisons, 1))
                     /\ RatLeq(totals[2], Rat(GIF_MOTION_EARLY_JPEG_MAX_SCORE, 1))
                    THEN collectedFrames([q EXCEPT !.earlyProbe = TRUE], <<col.planned - 1>>,
                                         <<Max(MIN_GIF_FRAME_DELAY_MS, col.durationMs)>>,
                                         "false", "false")
                    ELSE [q EXCEPT !.pc = "main", !.i = 1, !.truncatedByBudget = "false"]
    /\ UNCHANGED <<workerVars, clipVars, data, factory, plan, pb, card, element>>

\* one round of the main loop: the test of the budget, the capture, the
\* score and the flush of the pending frame
MainFrame ==
    /\ col.pc = "main" /\ col.i < col.planned
    /\ IF overBudget(col)
        THEN col' = [col EXCEPT !.pc = "finish", !.truncatedByBudget = "true"]
        ELSE LET q == IF col.i \in col.preCaptured THEN col ELSE captureFrameBuffer(col, col.i)
                 score == motionScore(FrameAt(col.scene, col.previousFrame),
                                      FrameAt(col.scene, col.i), GIF_MOTION_SAMPLE_STRIDE)
                 elapsedSinceFlushMs ==
                    Max(MIN_GIF_FRAME_DELAY_MS, roundedGap(col, col.i, col.lastFlushed))
                 requiredDelayMs ==
                    requiredDelayMsForMotionScore(score,
                        baseFrameDelayMs(col.durationMs, col.planned))
                 isNewDrawing == ~RatLeq(score, Rat(GIF_MOTION_NEW_DRAWING_THRESHOLD, 1))
                 flush == isNewDrawing /\ elapsedSinceFlushMs >= requiredDelayMs
             IN  col' = [q EXCEPT
                    !.scoreTotal = RatAdd(score, @),
                    !.scoreMax = IF col.comparisons = 0 \/ RatLeq(@, score) THEN score ELSE @,
                    !.comparisons = @ + 1,
                    !.frameBuffers = IF flush THEN Append(@, col.pending) ELSE @,
                    !.frameDelayMs = IF flush THEN Append(@, elapsedSinceFlushMs) ELSE @,
                    !.lastFlushed = IF flush THEN col.i ELSE @,
                    !.pending = col.i,
                    !.previousFrame = col.i,
                    !.i = @ + 1,
                    !.pc = IF col.i + 1 < col.planned THEN "main" ELSE "finish"]
    /\ UNCHANGED <<workerVars, clipVars, data, factory, plan, pb, card, element>>

\* the end of the collection that pushes the frame flushed last once more
\* in place of the pending frame
CollectFinishWithoutPending ==
    /\ col.pc = "finish"
    /\ LET finalFrameDelayMs ==
                Max(MIN_GIF_FRAME_DELAY_MS,
                    Max(baseFrameDelayMs(col.durationMs, col.planned),
                        roundedGap(col, col.pending, col.lastFlushed)))
           lowMotion ==
                /\ col.createJpegIfMotionIsLow
                /\ RatLeq(col.scoreTotal,
                          Rat(GIF_MOTION_SCORE_JPEG_CUTOFF * Max(1, col.comparisons), 1))
                /\ RatLeq(col.scoreMax, Rat(GIF_MOTION_SCORE_JPEG_CUTOFF, 1))
       IN  col' = IF lowMotion
                    THEN collectedFrames(col, <<col.pending>>,
                                         <<Max(MIN_GIF_FRAME_DELAY_MS, col.durationMs)>>,
                                         col.truncatedByBudget, "false")
                    ELSE collectedFrames(col, Append(col.frameBuffers, col.lastFlushed),
                                         Append(col.frameDelayMs, finalFrameDelayMs),
                                         col.truncatedByBudget, "true")
    /\ UNCHANGED <<workerVars, clipVars, data, factory, plan, pb, card, element>>

\* after the main loop: the pending frame is pushed and the scores decide
\* between the frames and the one still frame
CollectFinish ==
    /\ col.pc = "finish"
    /\ LET finalFrameDelayMs ==
                Max(MIN_GIF_FRAME_DELAY_MS,
                    Max(baseFrameDelayMs(col.durationMs, col.planned),
                        roundedGap(col, col.pending, col.lastFlushed)))
           lowMotion ==
                /\ col.createJpegIfMotionIsLow
                /\ RatLeq(col.scoreTotal,
                          Rat(GIF_MOTION_SCORE_JPEG_CUTOFF * Max(1, col.comparisons), 1))
                /\ RatLeq(col.scoreMax, Rat(GIF_MOTION_SCORE_JPEG_CUTOFF, 1))
       IN  col' = IF lowMotion
                    THEN collectedFrames(col, <<col.pending>>,
                                         <<Max(MIN_GIF_FRAME_DELAY_MS, col.durationMs)>>,
                                         col.truncatedByBudget, "false")
                    ELSE collectedFrames(col, Append(col.frameBuffers, col.pending),
                                         Append(col.frameDelayMs, finalFrameDelayMs),
                                         col.truncatedByBudget, "true")
    /\ UNCHANGED <<workerVars, clipVars, data, factory, plan, pb, card, element>>

\* _renderGifInWorker after the collection: one frame goes to one worker as
\* a JPEG, more frames to this._applyPaletteWorkerCount(frameBuffers.length)
\* workers, where navigator.hardwareConcurrency is floored when it is a
\* finite number and taken as 2 otherwise
CountWorkers(navigatorHardwareConcurrency) ==
    /\ col.pc = "done"
    /\ LET hardwareConcurrency ==
                IF navigatorHardwareConcurrency.type = "number"
                    THEN navigatorHardwareConcurrency.num \div navigatorHardwareConcurrency.den
                    ELSE 2
       IN  col' = [col EXCEPT !.pc = "encoding",
                              !.hardwareConcurrency = navigatorHardwareConcurrency,
                              !.nWorkers = IF Len(col.frameBuffers) = 1
                                            THEN 1
                                            ELSE applyPaletteWorkerCount(Len(col.frameBuffers),
                                                                         hardwareConcurrency)]
    /\ UNCHANGED <<workerVars, clipVars, data, factory, plan, pb, card, element>>

----------------------------------------------------------------------------
(* Collection during playback: _collectFramesWithPlayback of the version   *)
(* of image.ts that plays the source and captures frames as they are shown *)

\* a slot of frameBuffersByIndex: undefined, or the frame read for the
\* planned index while the video showed mediaTime
EmptySlot == [by |-> "none", index |-> 0, mediaTime |-> 0]

\* what the collection changes of the video element: paused, playbackRate
\* (in hundredths), muted, volume, the onerror and onended handlers (named
\* after the function that installed them) and whether a callback asked for
\* with requestVideoFrameCallback is outstanding
PlaybackVideo ==
    [paused |-> TRUE, playbackRate |-> 100, muted |-> FALSE, volume |-> 0,
     onerror |-> "none", onended |-> "none", callback |-> FALSE]

\* vid is the element, original the values saved on entry
\* (originalPlaybackRate, originalMuted, ...); caught is the error the catch
\* block of _collectFramesWithPlayback took; result and error are what
\* _collectFrames returned or threw
NoPlayback ==
    [pc |-> "none", planned |-> 0, stepMs |-> 0, baseFrameDelayMs |-> 0,
     hasBudget |-> FALSE, hasFrameCallback |-> FALSE, hasCancelFrameCallback |-> FALSE,
     sourceFpsCached |-> FALSE, sourceFps |-> 0,
     frameBuffersByIndex |-> <<>>, nextFrameIndex |-> 0, mediaTimeMs |-> 0,
     frameBuffers |-> <<>>,
     vid |-> PlaybackVideo, original |-> PlaybackVideo,
     caught |-> NoError, result |-> "none", error |-> NoError]

SOURCE_FPS_FALLBACK == 24
GIF_PLAYBACK_COLLECTION_FORMULA_OFFSET_RATE == 125
GIF_PLAYBACK_COLLECTION_FORMULA_SCALE == 150
GIF_PLAYBACK_COLLECTION_MIN_RATE == 100
GIF_PLAYBACK_COLLECTION_MAX_RATE == 200
GIF_PLAYBACK_COLLECTION_RATE_STEP == 25

\* _playbackCollectionRate(baseFrameDelayMs, sourceFps) with
\* playbackRateFromFps(videoFps, targetFps), targetFps = 1000 / max(1,
\* baseFrameDelayMs), in hundredths: minFps / videoFps is
\* min(1000, delay * videoFps) / (delay * videoFps)
playbackRateFromFps(videoFps, delayMs) ==
    LET delay == Max(1, delayMs)
        den == delay * videoFps
        num == GIF_PLAYBACK_COLLECTION_FORMULA_OFFSET_RATE * den
                + GIF_PLAYBACK_COLLECTION_FORMULA_SCALE * (den - Min(1000, den))
        candidateRate == IF num >= GIF_PLAYBACK_COLLECTION_MAX_RATE * den
                            THEN Rat(GIF_PLAYBACK_COLLECTION_MAX_RATE, 1)
                            ELSE Rat(num, den)
        rounded == RoundDiv(candidateRate.num, candidateRate.den * GIF_PLAYBACK_COLLECTION_RATE_STEP)
                        * GIF_PLAYBACK_COLLECTION_RATE_STEP
    IN  clamp(rounded, GIF_PLAYBACK_COLLECTION_MIN_RATE, GIF_PLAYBACK_COLLECTION_MAX_RATE)

\* frameTimestamps[i] of a clip that starts at 0 with stepMs between frames
pbTimestamp(q, i) == i * q.stepMs

captureToleranceMs(q) == Max(1, q.baseFrameDelayMs \div 2)
maxCaptureDriftMs(q) == Max(captureToleranceMs(q), q.baseFrameDelayMs)

\* no slot is ever found empty after playback
firstEmptyNone(slots) == 0

\* the first undefined slot of frameBuffersByIndex, 0 when every slot is filled
firstEmpty(slots) ==
    IF \E k \in 1..Len(slots) : slots[k] = EmptySlot
        THEN CHOOSE k \in 1..Len(slots) :
                slots[k] = EmptySlot /\ \A j \in 1..(k - 1) : slots[j] # EmptySlot
        ELSE 0

RECURSIVE skipped(_, _, _)
\* the while loop of onFrame: indexes whose timestamp lies more than the
\* drift behind the frame shown are passed over
skipped(q, index, mediaTimeMs) ==
    IF index < q.planned /\ pbTimestamp(q, index) < mediaTimeMs - maxCaptureDriftMs(q)
        THEN skipped(q, index + 1, mediaTimeMs)
        ELSE index

\* a finally block that cancels the callback and pauses the video but puts
\* nothing back
playbackFinallyNoRestore(q) ==
    [q EXCEPT !.vid = [@ EXCEPT !.callback = IF q.hasCancelFrameCallback THEN FALSE ELSE @,
                                !.paused = TRUE]]

\* the finally block of _collectFramesWithPlayback and of _sourceFps:
\* cancelVideoFrameCallback(callbackHandle), video.pause() and the saved
\* values are put back
playbackFinally(q) ==
    [q EXCEPT !.vid = [@ EXCEPT !.callback = IF q.hasCancelFrameCallback THEN FALSE ELSE @,
                                !.paused = TRUE,
                                !.playbackRate = q.original.playbackRate,
                                !.muted = q.original.muted,
                                !.volume = q.original.volume,
                                !.onerror = q.original.onerror,
                                !.onended = q.original.onended]]

\* a catch block that throws the error on to the caller of _collectFrames
playbackRethrow(q, e) ==
    [playbackFinally(q) EXCEPT !.pc = "threw", !.caught = e, !.error = e]

\* catch (error) { console.debug(...); return undefined } and the finally block
playbackCatch(q, e) ==
    [playbackFinally(q) EXCEPT !.pc = "undefined", !.caught = e]

\* _seekVideo(video, timestamp) is called: it installs its handlers
seekStarted(q) == [q EXCEPT !.vid.onerror = "seek"]

\* the seek has ended: resolveWithCleanup sets video.onerror = null
seekResolved(q) == [q EXCEPT !.vid.onerror = "none"]

\* the lines of _collectFramesWithPlayback after `await this._sourceFps(...)`:
\* the values of the element are saved and the first seek is started
afterSourceFps(q, fps) ==
    seekStarted([q EXCEPT !.pc = "seekFirst", !.sourceFps = fps, !.original = q.vid])

\* _collectFrames calls _collectFramesWithPlayback: it returns undefined at
\* once with a budget, a plan of one frame or no requestVideoFrameCallback;
\* else it awaits _sourceFps, which answers at once from its cache or saves
\* the values of the element and seeks to the first timestamp
PlaybackStart ==
    /\ pb.pc = "start"
    /\ pb' = IF pb.hasBudget \/ pb.planned <= 1 \/ ~pb.hasFrameCallback
                THEN [pb EXCEPT !.pc = "undefined"]
                ELSE IF pb.sourceFpsCached
                    THEN afterSourceFps(pb, pb.sourceFps)
                    ELSE seekStarted([pb EXCEPT !.pc = "fpsSeek", !.original = pb.vid])
    /\ UNCHANGED <<workerVars, clipVars, data, factory, plan, col, card, element>>

\* _sourceFps: its seek settles. The video is muted and played at rate 1; an
\* error is caught, the finally block runs and the fallback rate is returned
SourceFpsSeek(ok) ==
    /\ pb.pc = "fpsSeek"
    /\ pb' = IF ok
                THEN [seekResolved(pb) EXCEPT !.pc = "fpsPlay",
                            !.vid = [@ EXCEPT !.muted = TRUE, !.volume = 0, !.playbackRate = 100,
                                              !.paused = FALSE]]
                ELSE afterSourceFps(playbackFinally(pb), SOURCE_FPS_FALLBACK)
    /\ UNCHANGED <<workerVars, clipVars, data, factory, plan, col, card, element>>

\* _sourceFps: await video.play() settles and the sampling callback is asked for
SourceFpsPlay(ok) ==
    /\ pb.pc = "fpsPlay"
    /\ pb' = IF ok
                THEN [pb EXCEPT !.pc = "fpsSampling",
                            !.vid = [@ EXCEPT !.onerror = "sourceFps", !.onended = "sourceFps",
                                              !.callback = TRUE]]
                ELSE afterSourceFps(playbackFinally(pb), SOURCE_FPS_FALLBACK)
    /\ UNCHANGED <<workerVars, clipVars, data, factory, plan, col, card, element>>

\* _sourceFps: the sampling ends with enough frames or at its timeout
\* (onFrame asks for no further callback), with ended (finish) or with an
\* error (fail); the finally block runs and the estimate is cached
SourceFpsEnds(how, fps) ==
    /\ pb.pc = "fpsSampling"
    /\ LET q == [pb EXCEPT !.vid.callback =
                        IF how = "sampled" \/ pb.hasCancelFrameCallback THEN FALSE ELSE @]
       IN  pb' = afterSourceFps(playbackFinally(q), fps)
    /\ UNCHANGED <<workerVars, clipVars, data, factory, plan, col, card, element>>

\* the seek to frameTimestamps[0] settles: the first frame is read, the
\* video is muted, given its rate and video.play() is called; an error
\* is caught and undefined is returned
PlaybackFirstSeek(ok) ==
    /\ pb.pc = "seekFirst"
    /\ pb' = IF ok
                THEN [seekResolved(pb) EXCEPT !.pc = "play", !.nextFrameIndex = 1,
                                !.frameBuffersByIndex[1] = [by |-> "playback", index |-> 0, mediaTime |-> 0],
                                !.vid = [@ EXCEPT !.muted = TRUE, !.volume = 0,
                                            !.playbackRate = playbackRateFromFps(pb.sourceFps, pb.baseFrameDelayMs),
                                            !.paused = FALSE]]
                ELSE playbackCatch(pb, <<"Could not seek video to create GIF", "playback">>)
    /\ UNCHANGED <<workerVars, clipVars, data, factory, plan, col, card, element>>

\* await video.play() settles: onerror and onended are installed and the
\* first callback is asked for
PlaybackPlay(ok) ==
    /\ pb.pc = "play"
    /\ pb' = IF ok
                THEN [pb EXCEPT !.pc = "playing",
                            !.vid = [@ EXCEPT !.onerror = "playback", !.onended = "playback",
                                              !.callback = TRUE]]
                ELSE playbackCatch(pb, <<"play() rejected", "playback">>)
    /\ UNCHANGED <<workerVars, clipVars, data, factory, plan, col, card, element>>

\* onFrame(_ts, metadata) with metadata.mediaTime * 1000 = mediaTimeMs: after
\* the last frame finish() resolves and video.pause() is called, else the
\* next callback is asked for
OnFrame(mediaTimeMs) ==
    /\ pb.pc = "playing"
    /\ pb.vid.callback
    /\ mediaTimeMs > pb.mediaTimeMs
    /\ LET index == skipped(pb, pb.nextFrameIndex, mediaTimeMs)
           captures ==
                /\ index < pb.planned
                /\ mediaTimeMs >= pbTimestamp(pb, index) - captureToleranceMs(pb)
                /\ mediaTimeMs <= pbTimestamp(pb, index) + maxCaptureDriftMs(pb)
           next == IF captures THEN index + 1 ELSE index
       IN  pb' = [pb EXCEPT
                    !.mediaTimeMs = mediaTimeMs,
                    !.nextFrameIndex = next,
                    !.frameBuffersByIndex =
                        IF captures
                            THEN [@ EXCEPT ![index + 1] = [by |-> "playback", index |-> index, mediaTime |-> mediaTimeMs]]
                            ELSE @,
                    !.vid = [@ EXCEPT !.callback = next < pb.planned,
                                      !.paused = next >= pb.planned],
                    !.pc = IF next >= pb.planned THEN "filling" ELSE "playing"]
    /\ UNCHANGED <<workerVars, clipVars, data, factory, plan, col, card, element>>

\* video.onended = () => finish() and then video.pause(); or fail(error),
\* called by video.onerror or by onFrame when reading the frame throws: the
\* error is caught and undefined is returned
PlaybackEnds(ok) ==
    /\ pb.pc = "playing"
    /\ LET q == [pb EXCEPT !.vid.callback = IF pb.hasCancelFrameCallback THEN FALSE ELSE @]
       IN  pb' = IF ok
                    THEN [q EXCEPT !.pc = "filling", !.vid.paused = TRUE]
                    ELSE playbackCatch(q, <<"Could not play video to capture GIF", "playback">>)
    /\ UNCHANGED <<workerVars, clipVars, data, factory, plan, col, card, element>>

\* after playback: the seek for the first undefined slot settles, or, when no
\* slot is undefined, the frames are put together up to the first undefined
\* slot and returned through the finally block, and _collectFrames returns them
FillOrReturn(ok) ==
    /\ pb.pc = "filling"
    /\ LET k == firstEmpty(pb.frameBuffersByIndex)
       IN  pb' = IF k = 0
                    THEN LET slots == pb.frameBuffersByIndex
                             n == IF \E j \in 1..Len(slots) : slots[j] = EmptySlot
                                    THEN (CHOOSE j \in 1..Len(slots) :
                                            /\ slots[j] = EmptySlot
                                            /\ \A i \in 1..(j - 1) : slots[i] # EmptySlot) - 1
                                    ELSE Len(slots)
                         IN  [playbackFinally(pb) EXCEPT !.pc = "returned",
                                        !.frameBuffers = SubSeq(slots, 1, n),
                                        !.result = "playback"]
                 ELSE IF ok
                    THEN [seekResolved(pb) EXCEPT !.frameBuffersByIndex[k] =
                                [by |-> "seek", index |-> k - 1, mediaTime |-> pbTimestamp(pb, k - 1)]]
                    ELSE playbackCatch(seekStarted(pb), <<"Could not seek video to create GIF", "playback">>)
    /\ UNCHANGED <<workerVars, clipVars, data, factory, plan, col, card, element>>

\* _collectFrames after _collectFramesWithPlayback returned undefined:
\* `return await this._collectFramesWithSeeking(...)` returns its frames or
\* throws the error of one of its seeks
CollectFramesWithSeeking(ok) ==
    /\ pb.pc = "undefined"
    /\ pb' = IF ok
                THEN [seekResolved(pb) EXCEPT !.pc = "collected", !.result = "seeking"]
                ELSE [seekStarted(pb) EXCEPT !.pc = "threw", !.result = "seeking",
                            !.error = <<"Could not seek video to create GIF", "seeking">>]
    /\ UNCHANGED <<workerVars, clipVars, data, factory, plan, col, card, element>>

----------------------------------------------------------------------------
(* Cards: Image.fromCard with normalizeGifOptions and trimmedGifInterval   *)
(* (image.ts), MediaFragment.fromCard with the WebM range and the WebM     *)
(* support test (media-fragment.ts)                                        *)

GIF_OPTION_LIMITS ==
    [minDurationMs |-> MIN_DURATION_MS, maxDurationMs |-> DEFAULT_MAX_DURATION_MS,
     maxDurationCapMs |-> 60000,
     minFps |-> 1, maxFps |-> 60,
     minFrames |-> 1, maxFrames |-> 300,
     minTrimMs |-> 0, maxTrimMs |-> 3000]

DEFAULT_GIF_OPTIONS ==
    [maxDurationMs |-> GIF_OPTION_LIMITS.maxDurationMs,
     detectMotion |-> TRUE, createJpegIfMotionIsLow |-> TRUE,
     fps |-> 12, maxFrames |-> 24, startTrimMs |-> 100, endTrimMs |-> 0]

\* the rounded number without the clamp to its limits
normalizeRoundedNumberUnclamped(value, fallback, min, max) ==
    IF value.type = "number" THEN RoundDiv(value.num, value.den) ELSE fallback

\* typeof value === 'number' && Number.isFinite(value) ? Math.round(value) : fallback
normalizeRoundedNumber(value, fallback, min, max) ==
    LET resolvedValue == IF value.type = "number"
                            THEN RoundDiv(value.num, value.den)
                            ELSE fallback
    IN  clamp(resolvedValue, min, max)

\* normalizeBoolean is typeof value === 'boolean' ? value : fallback
normalizeGifOptions(raw) ==
    [maxDurationMs |-> normalizeRoundedNumber(raw.maxDurationMs, DEFAULT_GIF_OPTIONS.maxDurationMs,
                            GIF_OPTION_LIMITS.minDurationMs, GIF_OPTION_LIMITS.maxDurationCapMs),
     detectMotion |-> IF raw.detectMotion.type = "boolean"
                        THEN raw.detectMotion.num = 1
                        ELSE DEFAULT_GIF_OPTIONS.detectMotion,
     createJpegIfMotionIsLow |-> IF raw.createJpegIfMotionIsLow.type = "boolean"
                        THEN raw.createJpegIfMotionIsLow.num = 1
                        ELSE DEFAULT_GIF_OPTIONS.createJpegIfMotionIsLow,
     fps |-> normalizeRoundedNumber(raw.fps, DEFAULT_GIF_OPTIONS.fps,
                            GIF_OPTION_LIMITS.minFps, GIF_OPTION_LIMITS.maxFps),
     maxFrames |-> normalizeRoundedNumber(raw.maxFrames, DEFAULT_GIF_OPTIONS.maxFrames,
                            GIF_OPTION_LIMITS.minFrames, GIF_OPTION_LIMITS.maxFrames),
     startTrimMs |-> normalizeRoundedNumber(raw.startTrimMs, DEFAULT_GIF_OPTIONS.startTrimMs,
                            GIF_OPTION_LIMITS.minTrimMs, GIF_OPTION_LIMITS.maxTrimMs),
     endTrimMs |-> normalizeRoundedNumber(raw.endTrimMs, DEFAULT_GIF_OPTIONS.endTrimMs,
                            GIF_OPTION_LIMITS.minTrimMs, GIF_OPTION_LIMITS.maxTrimMs)]

trimmedGifInterval(startTimestamp, endTimestamp, options) ==
    LET trimmedStartTimestamp == startTimestamp + options.startTrimMs
        trimmedEndTimestamp == endTimestamp - options.endTrimMs
    IN  IF trimmedEndTimestamp > trimmedStartTimestamp
            THEN [startTimestamp |-> trimmedStartTimestamp, endTimestamp |-> trimmedEndTimestamp]
            ELSE [startTimestamp |-> startTimestamp, endTimestamp |-> endTimestamp]

minWebmMediaFragmentDurationMs == 300
maxWebmMediaFragmentDurationMs == 2500

webmMimeTypeCandidates == <<"video/webm;codecs=vp9", "video/webm;codecs=vp8", "video/webm">>

\* env is the browser: which globals exist and which MIME types
\* MediaRecorder.isTypeSupported accepts
preferredWebmMediaFragmentMimeType(env) ==
    IF ~env.mediaRecorder
        THEN "undefined"
        ELSE IF ~env.isTypeSupported
            THEN webmMimeTypeCandidates[Len(webmMimeTypeCandidates)]
            ELSE IF \E i \in DOMAIN webmMimeTypeCandidates : webmMimeTypeCandidates[i] \in env.accepted
                THEN webmMimeTypeCandidates[
                        CHOOSE i \in DOMAIN webmMimeTypeCandidates :
                            /\ webmMimeTypeCandidates[i] \in env.accepted
                            /\ \A j \in 1..(i - 1) : webmMimeTypeCandidates[j] \notin env.accepted]
                ELSE "undefined"

\* fromCard as it was before the support test: WebM whenever it is asked for
isWebmMediaFragmentSupportedUntested(env) == TRUE

isWebmMediaFragmentSupported(env) ==
    IF ~env.canvasElement
        THEN FALSE
        ELSE IF ~env.captureStream
            THEN FALSE
            ELSE preferredWebmMediaFragmentMimeType(env) # "undefined"

\* the range as the fragment was resolved before the minimum length was
\* introduced: the end is the trimmed end whatever the start
resolveWebmMediaFragmentRangeNoMinimum(subtitleStart, subtitleEnd, mediaFragmentTrimStart, mediaFragmentTrimEnd) ==
    LET resolvedTrimStart == IF mediaFragmentTrimStart.type = "number"
                                THEN mediaFragmentTrimStart.num ELSE 0
        resolvedTrimEnd == IF mediaFragmentTrimEnd.type = "number"
                                THEN mediaFragmentTrimEnd.num ELSE 0
    IN  [startTimestamp |-> Max(0, subtitleStart + resolvedTrimStart),
         endTimestamp |-> subtitleEnd - resolvedTrimEnd]

\* the trims are raw values whose finite numbers are whole milliseconds
resolveWebmMediaFragmentRange(subtitleStart, subtitleEnd, mediaFragmentTrimStart, mediaFragmentTrimEnd) ==
    LET resolvedTrimStart == IF mediaFragmentTrimStart.type = "number"
                                THEN mediaFragmentTrimStart.num ELSE 0
        resolvedTrimEnd == IF mediaFragmentTrimEnd.type = "number"
                                THEN mediaFragmentTrimEnd.num ELSE 0
        startTimestamp == Max(0, subtitleStart + resolvedTrimStart)
        desiredEndTimestamp == subtitleEnd - resolvedTrimEnd
        endTimestamp == Max(startTimestamp + minWebmMediaFragmentDurationMs, desiredEndTimestamp)
    IN  [startTimestamp |-> startTimestamp, endTimestamp |-> endTimestamp]

\* durationFromInterval of webm-file-media-fragment-data.ts
durationFromIntervalWebm(startTimestamp, endTimestamp) ==
    LET duration == Abs(endTimestamp - startTimestamp)
        resolvedDuration == IF duration > 0 THEN duration ELSE minWebmMediaFragmentDurationMs
    IN  clamp(resolvedDuration, minWebmMediaFragmentDurationMs, maxWebmMediaFragmentDurationMs)

\* What fromCard returns: type is "undefined", "throws", "base64", "jpeg",
\* "gif" or "webm"; a clip has its start, its end as passed to the
\* constructor, its duration and, for a GIF, its options
Made(type, startTimestamp, endTimestamp, durationMs, options) ==
    [type |-> type, startTimestamp |-> startTimestamp, endTimestamp |-> endTimestamp,
     durationMs |-> durationMs, options |-> options]

NoCard ==
    [pc |-> "none", api |-> "Image", stored |-> FALSE, file |-> FALSE,
     subtitle |-> [start |-> 0, end |-> 0], mediaTimestamp |-> RawValue("undefined", 0, 1),
     format |-> "jpeg", gifWorkerFactory |-> FALSE, gifOptions |-> <<>>,
     trimStart |-> RawValue("undefined", 0, 1), trimEnd |-> RawValue("undefined", 0, 1),
     env |-> <<>>, result |-> Made("undefined", 0, 0, 0, <<>>)]

\* card.mediaTimestamp ?? card.subtitle.start
stillTimestamp(c) ==
    IF c.mediaTimestamp.type = "undefined" THEN c.subtitle.start ELSE c.mediaTimestamp.num

\* Image.fromCard(card, maxWidth, maxHeight, preferGif, gifWorkerFactory, gifOptions);
\* format is "gif" when preferGif is true
ImageFromCard ==
    /\ card.pc = "requested"
    /\ card.api = "Image"
    /\ card' = [card EXCEPT !.pc = "made", !.result =
            IF card.stored
                THEN Made("base64", card.subtitle.start, card.subtitle.start, 0, <<>>)
                ELSE IF ~card.file
                    THEN Made("undefined", 0, 0, 0, <<>>)
                    ELSE IF card.format # "gif"
                        THEN Made("jpeg", stillTimestamp(card), stillTimestamp(card), 0, <<>>)
                        ELSE IF ~card.gifWorkerFactory
                            THEN Made("throws", 0, 0, 0, <<>>)
                            ELSE LET resolvedGifOptions == normalizeGifOptions(card.gifOptions)
                                     trimmed == trimmedGifInterval(card.subtitle.start, card.subtitle.end,
                                                                   resolvedGifOptions)
                                     made == PlannedClip(trimmed.startTimestamp, trimmed.endTimestamp,
                                                         resolvedGifOptions, UnknownDuration)
                                 IN  Made("gif", made.start, trimmed.endTimestamp, made.durationMs,
                                          resolvedGifOptions)]
    /\ UNCHANGED <<workerVars, clipVars, data, factory, plan, col, pb, element>>

\* MediaFragment.fromCard(card, maxWidth, maxHeight, mediaFragmentFormat,
\*                        mediaFragmentTrimStart, mediaFragmentTrimEnd)
MediaFragmentFromCard ==
    /\ card.pc = "requested"
    /\ card.api = "MediaFragment"
    /\ card' = [card EXCEPT !.pc = "made", !.result =
            IF card.stored
                THEN Made("base64", card.subtitle.start, card.subtitle.start, 0, <<>>)
                ELSE IF ~card.file
                    THEN Made("undefined", 0, 0, 0, <<>>)
                    ELSE IF card.format = "webm" /\ isWebmMediaFragmentSupported(card.env)
                        THEN LET range == resolveWebmMediaFragmentRange(
                                            card.subtitle.start, card.subtitle.end,
                                            card.trimStart, card.trimEnd)
                             IN  Made("webm", Max(0, range.startTimestamp), range.endTimestamp,
                                      durationFromIntervalWebm(range.startTimestamp, range.endTimestamp),
                                      <<>>)
                        ELSE Made("jpeg", stillTimestamp(card), stillTimestamp(card), 0, <<>>)]
    /\ UNCHANGED <<workerVars, clipVars, data, factory, plan, col, pb, element>>

----------------------------------------------------------------------------
(* createVideoElement (image.ts): the promise that waits for the element   *)

VIDEO_READY_TIMEOUT_MS == 5000

\* the element, the locals of the promise executor and the promise; clock
\* is the time since the call; settles counts the calls of resolve and
\* reject, fired the events the element has fired
NoElement ==
    [pc |-> "none", settled |-> FALSE, timeout |-> "none", handlers |-> FALSE,
     promise |-> "pending", settles |-> 0, clock |-> 0, fired |-> <<>>]

\* resolve(video) / reject(message) of the promise: only the first call counts
settlePromise(e, outcome) ==
    [e EXCEPT !.settles = @ + 1,
              !.promise = IF @ = "pending" THEN outcome ELSE @]

\* const cleanup = () => { clearTimeout(timeout); video.on... = null }
cleanup(e) ==
    [e EXCEPT !.timeout = IF @ = "armed" THEN "cleared" ELSE @, !.handlers = FALSE]

\* a handler that settles whether or not the promise was settled before
settleUnguarded(e, outcome) == settlePromise(e, outcome)

\* done, fail and the timer's callback: if (!settled) { settled = true;
\* cleanup(); resolve(video) or reject(...) }
settle(e, outcome) ==
    IF ~e.settled
        THEN settlePromise(cleanup([e EXCEPT !.settled = TRUE]), outcome)
        ELSE e

\* createVideoElement(blobUrl) up to video.src = blobUrl: the timer is
\* armed and the three handlers are installed
createVideoElement ==
    [NoElement EXCEPT !.pc = "loading", !.timeout = "armed", !.handlers = TRUE]

\* the element fires loadedmetadata, canplay or error: the handler that is
\* installed for it runs, done for the first two and fail for the last
ElementFires(event) ==
    /\ element.pc = "loading"
    /\ Len(element.fired) < MaxElementEvents
    /\ LET e == [element EXCEPT !.fired = Append(@, event)]
       IN  element' = IF ~element.handlers THEN e
                      ELSE IF event = "error" THEN settle(e, "rejected")
                      ELSE settle(e, "resolved")
    /\ UNCHANGED <<workerVars, clipVars, data, factory, plan, col, pb, card>>

\* a second passes
ElementTick ==
    /\ element.pc = "loading"
    /\ element.clock <= VIDEO_READY_TIMEOUT_MS
    /\ element' = [element EXCEPT !.clock = @ + 1000]
    /\ UNCHANGED <<workerVars, clipVars, data, factory, plan, col, pb, card>>

\* the callback of setTimeout(..., VIDEO_READY_TIMEOUT_MS) runs
ElementTimeout ==
    /\ element.timeout = "armed"
    /\ element.clock >= VIDEO_READY_TIMEOUT_MS
    /\ element' = settle([element EXCEPT !.timeout = "fired"], "resolved")
    /\ UNCHANGED <<workerVars, clipVars, data, factory, plan, col, pb, card>>

----------------------------------------------------------------------------
(* Data objects and atTimestamp: FileImageData and GifFileImageData        *)
(* (image.ts), JpegFileMediaFragmentData, WebmFileMediaFragmentData        *)

\* data objects that can exist: the first one and those atTimestamp creates
MaxData == 2
DataIds == 1..MaxData

\* kind is "jpeg" (FileImageData, JpegFileMediaFragmentData), "gif" or
\* "webm"; promise is _canvasPromise or _blobPromise and promiseReject says
\* whether _canvasPromiseReject / _blobPromiseReject is set; options are the
\* GIF options or the JPEG quality in hundredths. parent, asked and calls
\* are history: the object atTimestamp made this one from, the timestamp
\* it was called with, and "disposedPending" when dispose() met a pending
\* promise
NoObject ==
    [kind |-> "none", timestamp |-> 0, durationMs |-> 0, options |-> <<>>,
     maxWidth |-> 0, maxHeight |-> 0, video |-> 0, canvas |-> FALSE,
     promise |-> "none", error |-> NoError, promiseReject |-> FALSE, pc |-> "idle",
     parent |-> 0, asked |-> 0, calls |-> {}]

\* the video element a still is drawn from, named after the object that
\* created it; finite: video.duration is a finite number
NoDataVideo ==
    [status |-> "none", finite |-> FALSE, seeking |-> FALSE,
     onseeked |-> 0, onerror |-> 0, onloadedmetadata |-> 0]

\* returned is the last call of atTimestamp: <<object, timestamp, result>>
NoData ==
    [objs |-> [i \in DataIds |-> NoObject],
     video |-> [v \in DataIds |-> NoDataVideo],
     returned |-> <<0, 0, 0>>]

defaultJpegCompressionQuality == 85

\* resolveJpegCompressionQuality(quality), in hundredths
resolveJpegCompressionQuality(quality) ==
    IF quality.type # "number"
        THEN defaultJpegCompressionQuality
        ELSE Max(0, Min(100, quality.num \div quality.den))

\* the constructor that keeps a negative timestamp as it is for every kind
NewDataUnclamped(kind, timestamp, endTimestamp, maxWidth, maxHeight, options, v, canvas) ==
    [NoObject EXCEPT
        !.kind = kind,
        !.timestamp = timestamp,
        !.durationMs = IF kind = "gif" THEN durationFromInterval(timestamp, endTimestamp, options)
                       ELSE IF kind = "webm" THEN durationFromIntervalWebm(timestamp, endTimestamp)
                       ELSE 0,
        !.options = IF kind = "jpeg" THEN resolveJpegCompressionQuality(options) ELSE options,
        !.maxWidth = maxWidth, !.maxHeight = maxHeight,
        !.video = v, !.canvas = canvas]

\* the constructors: new FileImageData / JpegFileMediaFragmentData(file,
\* timestamp, ...), new GifFileImageData(file, startTimestamp, endTimestamp,
\* ...), new WebmFileMediaFragmentData(file, startTimestamp, endTimestamp, ...)
NewData(kind, timestamp, endTimestamp, maxWidth, maxHeight, options, v, canvas) ==
    [NoObject EXCEPT
        !.kind = kind,
        !.timestamp = IF kind = "jpeg" THEN timestamp ELSE Max(0, timestamp),
        !.durationMs = IF kind = "gif" THEN durationFromInterval(timestamp, endTimestamp, options)
                       ELSE IF kind = "webm" THEN durationFromIntervalWebm(timestamp, endTimestamp)
                       ELSE 0,
        !.options = IF kind = "jpeg" THEN resolveJpegCompressionQuality(options) ELSE options,
        !.maxWidth = maxWidth, !.maxHeight = maxHeight,
        !.video = v, !.canvas = canvas]

\* reject(e) and resolve(canvas) of the promise of o: only the first call counts
dataReject(o, e) ==
    IF o.promise = "pending" THEN [o EXCEPT !.promise = "rejected", !.error = e] ELSE o

dataResolve(o) ==
    IF o.promise = "pending" THEN [o EXCEPT !.promise = "resolved"] ELSE o

\* new CancelledImageDataRenderingError() / CancelledMediaFragmentDataRenderingError()
DataCancelled(kind) == CancelledError(IF kind = "gif" THEN "gif" ELSE "webm")

FreeData == {n \in DataIds : data.objs[n].kind = "none"}

\* atTimestamp(timestamp) of the three classes
DataAtTimestamp(i, timestamp) ==
    LET o == data.objs[i]
    IN  /\ o.kind # "none"
        /\ UNCHANGED <<workerVars, clipVars, factory, plan, col, pb, card, element>>
        /\ IF timestamp = o.timestamp
              THEN data' = [data EXCEPT !.returned = <<i, timestamp, i>>]
              ELSE /\ FreeData # {}
                   /\ LET n == CHOOSE m \in FreeData : \A k \in FreeData : m <= k
                          made == NewData(o.kind, timestamp, timestamp + o.durationMs,
                                          o.maxWidth, o.maxHeight,
                                          IF o.kind = "jpeg" THEN RawValue("number", o.options, 1)
                                                             ELSE o.options,
                                          o.video, o.canvas)
                      IN  data' = [data EXCEPT
                            !.objs[i] = IF o.promiseReject THEN dataReject(o, DataCancelled(o.kind)) ELSE o,
                            !.objs[n] = [made EXCEPT !.parent = i, !.asked = timestamp],
                            !.returned = <<i, timestamp, n>>]

\* _getCanvas after `await this._videoElement(this._file)`: currentTime is
\* set or left to onloadedmetadata, onseeked and onerror are installed
afterVideoElement(D, i) ==
    LET v == D.objs[i].video
        vid == D.video[v]
    IN  [D EXCEPT !.objs[i].pc = "waiting",
                  !.video[v] = [vid EXCEPT
                        !.seeking = IF vid.finite THEN vid.status = "live" ELSE @,
                        !.onloadedmetadata = IF vid.finite THEN @ ELSE i,
                        !.onseeked = i, !.onerror = i]]

\* blob(), base64() or dataUrl() of a still: the first call of _getCanvas
\* (later calls return the promise of the first)
GetCanvas(i) ==
    LET o == data.objs[i]
        D == [data EXCEPT !.objs[i].promise = "pending", !.objs[i].promiseReject = TRUE]
    IN  /\ o.kind = "jpeg"
        /\ o.promise = "none"
        /\ UNCHANGED <<workerVars, clipVars, factory, plan, col, pb, card, element>>
        /\ data' = IF o.video = 0
                        THEN [D EXCEPT !.objs[i].pc = "createVideo"]
                        ELSE afterVideoElement(D, i)

\* createVideoElement settles. When it rejects, the async executor of
\* _canvasPromise throws at its await: nothing catches it and neither
\* resolve nor reject is called
DataElementReady(i, ok, finite) ==
    /\ data.objs[i].pc = "createVideo"
    /\ UNCHANGED <<workerVars, clipVars, factory, plan, col, pb, card, element>>
    /\ data' = IF ok
                  THEN afterVideoElement(
                            [data EXCEPT !.objs[i].video = i,
                                         !.video[i] = [NoDataVideo EXCEPT !.status = "live",
                                                                          !.finite = finite]], i)
                  ELSE [data EXCEPT !.objs[i].pc = "threw"]

\* the element fires loadedmetadata: the handler _getCanvas left sets currentTime
DataLoadedMetadata(v) ==
    /\ data.video[v].status = "live"
    /\ ~data.video[v].finite
    /\ UNCHANGED <<workerVars, clipVars, factory, plan, col, pb, card, element>>
    /\ data' = [data EXCEPT !.video[v] = [@ EXCEPT
                    !.finite = TRUE,
                    !.seeking = IF @ THEN @ ELSE data.video[v].onloadedmetadata # 0,
                    !.onloadedmetadata = 0]]

\* the element fires seeked: video.onseeked of _getCanvas draws the frame
DataSeeked(v, ctxOk) ==
    /\ data.video[v].status = "live"
    /\ data.video[v].seeking
    /\ UNCHANGED <<workerVars, clipVars, factory, plan, col, pb, card, element>>
    /\ LET c == data.video[v].onseeked
           D == [data EXCEPT !.video[v].seeking = FALSE]
       IN  IF c = 0 THEN data' = D
           ELSE LET o == [D.objs[c] EXCEPT !.promiseReject = FALSE]
                IN  IF ~ctxOk
                        THEN data' = [D EXCEPT !.objs[c] =
                                        [dataReject(o, <<"TypeError">>) EXCEPT !.pc = "done"]]
                    ELSE IF o.maxWidth > 0 \/ o.maxHeight > 0
                        THEN data' = [D EXCEPT !.video[v].onseeked = 0,
                                               !.objs[c] = [o EXCEPT !.canvas = TRUE, !.pc = "resizing"]]
                        ELSE data' = [D EXCEPT !.video[v].onseeked = 0,
                                               !.objs[c] = [dataResolve(o) EXCEPT !.canvas = TRUE,
                                                                                  !.pc = "done"]]

\* `await resizeCanvas(...)` settles
DataResized(i, ok) ==
    /\ data.objs[i].pc = "resizing"
    /\ UNCHANGED <<workerVars, clipVars, factory, plan, col, pb, card, element>>
    /\ data' = [data EXCEPT !.objs[i] =
                    [IF ok THEN dataResolve(@) ELSE dataReject(@, <<"resizeCanvas failed">>)
                        EXCEPT !.pc = "done"]]

\* the element fires error: video.onerror of the last _getCanvas rejects
DataVideoError(v) ==
    /\ data.video[v].status = "live"
    /\ UNCHANGED <<workerVars, clipVars, factory, plan, col, pb, card, element>>
    /\ LET c == data.video[v].onerror
           D == [data EXCEPT !.video[v].status = "failed", !.video[v].seeking = FALSE]
       IN  data' = IF c = 0 THEN D
                   ELSE [D EXCEPT !.objs[c] =
                            dataReject(@, <<"Could not load video to obtain screenshot">>)]

\* dispose() of a still that rejects its canvas promise as a GIF does
stillDisposeRejecting(o) ==
    IF o.promiseReject THEN dataReject(o, DataCancelled(o.kind)) ELSE o

\* dispose() of a still: the element is released and nothing is rejected
stillDispose(o) == o

\* dispose(): disposeVideoElement(this._video); this._video = undefined;
\* a GIF or WebM object first calls this._blobPromiseReject?.(...)
DataDispose(i) ==
    LET o == data.objs[i]
        q == IF o.kind = "jpeg" THEN stillDispose(o)
             ELSE IF o.promiseReject THEN dataReject(o, DataCancelled(o.kind)) ELSE o
    IN  /\ o.kind # "none"
        /\ UNCHANGED <<workerVars, clipVars, factory, plan, col, pb, card, element>>
        /\ data' = [data EXCEPT
                !.objs[i] = [q EXCEPT !.video = 0,
                                      !.calls = IF o.promise = "pending"
                                                    THEN @ \cup {"disposedPending"} ELSE @],
                !.video = IF o.video = 0 THEN @
                          ELSE [@ EXCEPT ![o.video] = [@ EXCEPT !.status = "disposed",
                                                                !.seeking = FALSE]]]

----------------------------------------------------------------------------
(* The encoder worker factory: workerBlobUrl (record-media-handler.ts)     *)

NoFactory == [pc |-> "none"]

\* the callers of the factory, and the calls each of them makes at most
FactoryCallers == 1..2

MaxFactoryCalls == 2

\* '/gif-encoder-worker.js' and '/pgs-parser-worker.js': the two modules hold
\* the same code, each with a workerBlobUrlPromise of its own
WorkerScripts == {"/gif-encoder-worker.js", "/pgs-parser-worker.js"}

\* let workerBlobUrlPromise: Promise<string> | undefined. The promises the
\* module makes are numbered by the fetch they belong to; 0 is undefined.
\* promises[k] is the state of the promise returned by .catch() for fetch k,
\* stage is the position of the async function that loads the script
NewFactory(script) ==
    [pc |-> "loaded", workerScriptUrl |-> script,
     workerBlobUrlPromise |-> 0, fetches |-> 0, stage |-> "none",
     promises |-> <<>>,
     callers |-> [c \in FactoryCallers |->
                    [pc |-> "idle", awaited |-> 0, calls |-> 0, worker |-> 0]]]

\* .catch((error) => { ...; throw error }) without the assignment
catchHandlerKeepsPromise(f) ==
    [f EXCEPT !.stage = "none", !.promises[f.fetches] = "rejected"]

\* .catch((error) => { workerBlobUrlPromise = undefined; throw error })
catchHandler(f) ==
    [f EXCEPT !.workerBlobUrlPromise = 0, !.stage = "none",
              !.promises[f.fetches] = "rejected"]

\* if (!workerBlobUrlPromise) { workerBlobUrlPromise = (async () => { const
\* response = await fetch(workerScriptUrl); ...
workerBlobUrl(f) ==
    IF f.workerBlobUrlPromise = 0
    THEN [f EXCEPT !.workerBlobUrlPromise = f.fetches + 1, !.fetches = @ + 1,
                   !.stage = "fetch", !.promises = Append(@, "pending")]
    ELSE f

\* gifEncoderWorkerFactory / pgsParserWorkerFactory is called: workerBlobUrl
\* runs up to `await workerBlobUrlPromise`
FactoryCall(c) ==
    /\ factory.pc = "loaded"
    /\ factory.callers[c].pc # "awaiting"
    /\ factory.callers[c].calls < MaxFactoryCalls
    /\ LET f == workerBlobUrl(factory)
       IN  factory' = [f EXCEPT !.callers[c] =
                            [pc |-> "awaiting", awaited |-> f.workerBlobUrlPromise,
                             calls |-> factory.callers[c].calls + 1, worker |-> 0]]
    /\ UNCHANGED <<workerVars, clipVars, plan, col, pb, card, element, data>>

\* fetch(workerScriptUrl) settles: with a response that is ok, with one that
\* is not, or with a rejection
FetchSettles(outcome) ==
    /\ factory.pc = "loaded" /\ factory.stage = "fetch"
    /\ factory' = [factory EXCEPT !.stage = IF outcome = "ok" THEN "text" ELSE "threw"]
    /\ UNCHANGED <<workerVars, clipVars, plan, col, pb, card, element, data>>

\* response.text() settles; the blob URL is made and the promise fulfilled
TextSettles(ok) ==
    /\ factory.pc = "loaded" /\ factory.stage = "text"
    /\ factory' = IF ok
                  THEN [factory EXCEPT !.stage = "none",
                                       !.promises[factory.fetches] = "fulfilled"]
                  ELSE [factory EXCEPT !.stage = "threw"]
    /\ UNCHANGED <<workerVars, clipVars, plan, col, pb, card, element, data>>

\* the async function has thrown: the handler given to .catch() runs
FetchCaught ==
    /\ factory.pc = "loaded" /\ factory.stage = "threw"
    /\ factory' = catchHandler(factory)
    /\ UNCHANGED <<workerVars, clipVars, plan, col, pb, card, element, data>>

\* the continuation of `await workerBlobUrlPromise` in a caller:
\* new Worker(url), or the error of the fetch
FactoryResumes(c) ==
    /\ factory.pc = "loaded"
    /\ factory.callers[c].pc = "awaiting"
    /\ factory.promises[factory.callers[c].awaited] # "pending"
    /\ LET k == factory.callers[c].awaited
       IN  factory' = IF factory.promises[k] = "fulfilled"
                      THEN [factory EXCEPT !.callers[c].pc = "returned",
                                           !.callers[c].worker = k]
                      ELSE [factory EXCEPT !.callers[c].pc = "threw"]
    /\ UNCHANGED <<workerVars, clipVars, plan, col, pb, card, element, data>>

----------------------------------------------------------------------------
(* Specifications *)

\* the planner and the collection when they are not exercised
PureIdle ==
    /\ plan = NoPlan /\ col = NoCol /\ pb = NoPlayback /\ card = NoCard
    /\ element = NoElement /\ data = NoData /\ factory = NoFactory

\* the worker-side variables when the worker is not exercised
WorkerIdle == WorkerInit

ClipIdle ==
    /\ clip = [c \in Clips |-> NoClip]
    /\ video = [v \in Videos |-> NoVideo]
    /\ gifOptions = [detectMotion |-> TRUE, createJpegIfMotionIsLow |-> TRUE]

\* Image.fromGifFile(...): one clip, no video element, no canvas
Init ==
    /\ WorkerIdle
    /\ PureIdle
    /\ clip = [c \in Clips |-> IF c = 1 THEN NewClip("gif", 0, 0, 0) ELSE NoClip]
    /\ video = [v \in Videos |-> NoVideo]
    /\ gifOptions \in [detectMotion : BOOLEAN, createJpegIfMotionIsLow : {TRUE}]

\* the choices that can make a difference to a render that planned P frames;
\* every frame that is a new drawing is flushed
ChoicesFor(P) ==
    {ch \in Choices :
        /\ ch.flush
        /\ (~(gifOptions.detectMotion /\ P > 1)) => (~ch.lowMotion /\ ~ch.truncate)
        /\ (P < GIF_APPLY_PALETTE_POOL_MIN_FRAMES) =>
                (\A h \in HardwareConcurrencyChoices : ch.hardwareConcurrency <= h)}

StartsOf(frameCounts) == [frameCount : frameCounts, ctxOk : BOOLEAN]

\* the calls and events of the clips in cs, whose renders plan one of
\* frameCounts frames
ClipNext(cs, frameCounts) ==
    \/ \E c \in cs :
            IF clip[c].blobPromise = "none" /\ clip[c].video # 0
                THEN \E start \in StartsOf(frameCounts) : \E ch \in ChoicesFor(start.frameCount) :
                        Blob(c, start, ch)
                ELSE \E start \in StartsOf({1}) : \E ch \in ChoicesFor(1) :
                        start.ctxOk /\ Blob(c, start, ch)
    \/ \E c \in cs, ok \in BOOLEAN :
            IF ok
                THEN \E start \in StartsOf(frameCounts) : \E ch \in ChoicesFor(start.frameCount) :
                        VideoElementReady(c, ok, start, ch)
                ELSE \E start \in StartsOf({1}) : \E ch \in ChoicesFor(1) :
                        start.ctxOk /\ VideoElementReady(c, ok, start, ch)
    \/ \E v \in Videos :
            \E ch \in ChoicesFor(IF video[v].onseeked = 0 THEN 1
                                  ELSE clip[video[v].onseeked].planned) : Seeked(v, ch)
    \/ \E v \in Videos : VideoError(v)
    \/ \E c \in cs : \E ch \in ChoicesFor(clip[c].planned) : Yielded(c, ch)
    \/ \E c \in cs, ok \in BOOLEAN : WorkerReady(c, ok)
    \/ \E c \in cs, w \in WorkerIds, arrival \in Arrivals : WorkerArrives(c, w, arrival)
    \/ \E c \in cs, t \in Timestamps : atTimestamp(c, t)
    \/ \E c \in cs : dispose(c)

\* Clips and their cancellation: every clip of the chain may render; the
\* renders plan few frames
MaxPlannedFrames == 3
Next == ClipNext(Clips, {1, MaxPlannedFrames})

Spec == Init /\ [][Next]_vars

\* The events the platform owes a render: a seek that was started fires
\* seeked or error, a timer fires, the worker factory and createVideoElement
\* settle, a worker that holds a request answers it or raises an error event.
\* The calls of the user (blob, atTimestamp, dispose) are owed to nobody.
SeekSettles(v) ==
    \/ \E ch \in ChoicesFor(IF video[v].onseeked = 0 THEN 1
                             ELSE clip[video[v].onseeked].planned) : Seeked(v, ch)
    \/ VideoError(v)

TimerFires(c) == \E ch \in ChoicesFor(clip[c].planned) : Yielded(c, ch)

ElementSettles(c) ==
    \E ok \in BOOLEAN :
        IF ok
            THEN \E start \in StartsOf({1, MaxPlannedFrames}) : \E ch \in ChoicesFor(start.frameCount) :
                    VideoElementReady(c, ok, start, ch)
            ELSE \E start \in StartsOf({1}) : \E ch \in ChoicesFor(1) :
                    start.ctxOk /\ VideoElementReady(c, ok, start, ch)

FactorySettles(c) == \E ok \in BOOLEAN : WorkerReady(c, ok)

WorkerAnswers(c, w) == \E arrival \in Arrivals : WorkerArrives(c, w, arrival)

Fairness ==
    /\ \A v \in Videos : WF_vars(SeekSettles(v))
    /\ \A c \in Clips :
            /\ WF_vars(TimerFires(c))
            /\ WF_vars(ElementSettles(c))
            /\ WF_vars(FactorySettles(c))
            /\ \A w \in WorkerIds : WF_vars(WorkerAnswers(c, w))

\* Image.fromGifFile(..., { detectMotion: false }): one clip whose renders
\* capture every planned frame
FairInit == Init /\ ~gifOptions.detectMotion

\* the clips and their cancellation, with every event the platform owes
FairSpec == FairInit /\ [][Next]_vars /\ Fairness

\* One render followed through every phase, the worker pool included, with
\* the calls that cancel it: only the first clip renders
\* Image.fromGifFile(...) or MediaFragment.fromWebmFile(...)
RenderInit ==
    /\ WorkerIdle
    /\ PureIdle
    /\ \E kind \in {"gif", "webm"} :
            clip = [c \in Clips |-> IF c = 1 THEN NewClip(kind, 0, 0, 0) ELSE NoClip]
    /\ video = [v \in Videos |-> NoVideo]
    /\ gifOptions \in [detectMotion : BOOLEAN, createJpegIfMotionIsLow : {TRUE}]

\* the calls and events that only a WebM clip has
WebmNext(cs) ==
    \/ \E c \in cs, start \in WebmStarts : WebmBlob(c, start)
    \/ \E c \in cs, ok \in BOOLEAN, start \in WebmStarts :
            start.supported /\ WebmVideoElementReady(c, ok, start)
    \/ \E c \in cs, ok \in BOOLEAN : PlaySettles(c, ok)
    \/ \E c \in cs, done \in BOOLEAN : WebmFrame(c, done)
    \/ \E v \in Videos : VideoEnded(v)
    \/ \E c \in cs, empty \in BOOLEAN : RecorderStopped(c, empty)
    \/ \E c \in cs : RecorderError(c)

RenderNext ==
    \/ ClipNext({1}, {1, GIF_APPLY_PALETTE_POOL_MIN_FRAMES})
    \/ WebmNext({1})

RenderSpec == RenderInit /\ [][RenderNext]_vars

\* The palette pool on its own: _applyPaletteInWorkerPool(workers,
\* frameBuffers, palette) has been called with up to MaxPoolFrames frames and
\* the replies of its workers arrive in any order
PoolPixels == {0, 1}

PoolInit ==
    /\ WorkerIdle
    /\ PureIdle
    /\ video = [v \in Videos |-> NoVideo]
    /\ gifOptions = [detectMotion |-> TRUE, createJpegIfMotionIsLow |-> TRUE]
    /\ \E n \in 0..MaxPoolFrames :
       \E frames \in [1..n -> PoolPixels] :
       \E nWorkers \in 0..Min(MaxPoolFrames, GIF_APPLY_PALETTE_POOL_MAX_WORKERS) :
       \E palette \in Palettes :
            clip = [c \in Clips |->
                      IF c = 1
                        THEN applyPaletteInWorkerPool(
                                [NoClip EXCEPT !.kind = "gif", !.pc = "pool",
                                               !.frameBuffers = frames,
                                               !.workers = [w \in WorkerIds |->
                                                    IF w \in 1..nWorkers
                                                        THEN [NoWorker EXCEPT !.status = "live"]
                                                        ELSE NoWorker]],
                                nWorkers, palette)
                        ELSE NoClip]

PoolNext ==
    \E w \in PoolWorkerIds, arrival \in Arrivals : WorkerArrives(1, w, arrival)

PoolSpec == PoolInit /\ [][PoolNext]_vars

\* the worker handling a sequence of requests
WorkerSpecInit == WorkerInit /\ ClipIdle /\ PureIdle

WorkerNext ==
    \/ \E i \in RequestIds, command \in Commands, syncThrows \in BOOLEAN, postThrows \in BOOLEAN :
            WorkerReceive(i, command, syncThrows, postThrows) /\ UNCHANGED <<clipVars, pureVars>>
    \/ \E i \in RequestIds, blobThrows \in BOOLEAN :
            WorkerJpegResume(i, blobThrows) /\ UNCHANGED <<clipVars, pureVars>>

WorkerSpec == WorkerSpecInit /\ [][WorkerNext]_vars

\* The planner on its own: a clip is constructed over an interval of a
\* source and its timestamps are planned and sought one after another
\* length is endTimestamp - startTimestamp
PlanInputs ==
    [startTimestamp : {-100, 0, 400, 1200},
     length : {-500, 0, 100, 1000, 3000},
     fps : {1, 12, 60},
     maxFrames : {1, 3, 24},
     videoDuration : {UnknownDuration} \cup {FiniteDuration(ms) : ms \in {0, 317, 1000, 5000}}]

PlanInit ==
    /\ WorkerIdle
    /\ ClipIdle
    /\ col = NoCol /\ pb = NoPlayback /\ card = NoCard /\ element = NoElement
    /\ data = NoData /\ factory = NoFactory
    /\ \E in \in PlanInputs :
            plan = PlannedClip(in.startTimestamp, in.startTimestamp + in.length,
                               [fps |-> in.fps, maxFrames |-> in.maxFrames,
                                maxDurationMs |-> DEFAULT_MAX_DURATION_MS],
                               in.videoDuration)

PlanNext == PlanFrames \/ PlanSeek

PlanSpec == PlanInit /\ [][PlanNext]_vars

\* The collection on its own: a clip of a scene is constructed and its
\* frames are collected, every capture taking the time the source needs
ColInputs ==
    [scene : {"static", "strong", "mild", "slight", "flash"},
     durationMs : {300, 1000},
     fps : {1, 10, 12},
     maxFrames : {1, 24},
     detectMotion : BOOLEAN,
     createJpegIfMotionIsLow : BOOLEAN,
     override : {NoBudgetOverride} \cup {BudgetOverride(ms) : ms \in {0, 1300, 5000}},
     captureMs : {10, 120, 400}]

ColInit ==
    /\ WorkerIdle
    /\ ClipIdle
    /\ plan = NoPlan /\ pb = NoPlayback /\ card = NoCard /\ element = NoElement
    /\ data = NoData /\ factory = NoFactory
    /\ \E in \in ColInputs :
            col = CollectedClip(in.scene, in.durationMs,
                                [fps |-> in.fps, maxFrames |-> in.maxFrames,
                                 maxDurationMs |-> DEFAULT_MAX_DURATION_MS,
                                 detectMotion |-> in.detectMotion,
                                 createJpegIfMotionIsLow |-> in.createJpegIfMotionIsLow],
                                in.override, in.captureMs)

ColNext ==
    \/ CollectSingle
    \/ CollectEvery
    \/ CollectFirst
    \/ ProbeCapture
    \/ ProbeDecide
    \/ MainFrame
    \/ CollectFinish
    \/ \E h \in {RawValue("undefined", 0, 1), RawValue("NaN", 0, 1), RawValue("number", 7, 2)}
                \cup {RawValue("number", n, 1) : n \in {1, 2, 3, 4, 5, 8}} :
            CountWorkers(h)

ColSpec == ColInit /\ [][ColNext]_vars

\* requiredDelayMsForMotionScore on its own: the collection asks for the
\* delays of two scores, lower <= higher, with the base delay of its clip.
\* A score is the mean difference of the sampled pixels, 0 to 3 x 255; the
\* base delay is max(20, round(1000 / fps)) for fps 1 to 60
DelayScores ==
    {Rat(0, 1), Rat(25, 1), Rat(50, 1), Rat(101, 2), Rat(51, 1), Rat(100, 1), Rat(125, 1),
     Rat(301, 2), Rat(199, 1), Rat(399, 2), Rat(200, 1), Rat(201, 1), Rat(765, 1)}

DelayBases == {20, 42, 83, 100, 250, 1000}

DelayInit ==
    /\ WorkerIdle
    /\ ClipIdle
    /\ plan = NoPlan /\ pb = NoPlayback /\ card = NoCard /\ element = NoElement
    /\ data = NoData /\ factory = NoFactory
    /\ \E lower \in DelayScores, higher \in DelayScores, base \in DelayBases :
            /\ RatLeq(lower, higher)
            /\ col = [pc |-> "scores", lower |-> lower, higher |-> higher,
                      baseFrameDelayMs |-> base, requiredDelayMs |-> <<>>]

\* const requiredDelayMs = requiredDelayMsForMotionScore(score, baseFrameDelayMs)
RequiredDelay ==
    /\ col.pc = "scores"
    /\ col' = [col EXCEPT
                !.pc = "delays",
                !.requiredDelayMs = <<requiredDelayMsForMotionScore(col.lower, col.baseFrameDelayMs),
                                      requiredDelayMsForMotionScore(col.higher, col.baseFrameDelayMs)>>]
    /\ UNCHANGED <<workerVars, clipVars, data, factory, plan, pb, card, element>>

DelaySpec == DelayInit /\ [][RequiredDelay]_vars

\* the module of a worker factory has been loaded; nothing has called it
FactoryInit ==
    /\ WorkerIdle
    /\ ClipIdle
    /\ plan = NoPlan /\ col = NoCol /\ pb = NoPlayback /\ card = NoCard /\ element = NoElement
    /\ data = NoData
    /\ \E script \in WorkerScripts : factory = NewFactory(script)

FactoryNext ==
    \/ \E c \in FactoryCallers : FactoryCall(c)
    \/ \E outcome \in {"ok", "notOk", "rejected"} : FetchSettles(outcome)
    \/ \E ok \in BOOLEAN : TextSettles(ok)
    \/ FetchCaught
    \/ \E c \in FactoryCallers : FactoryResumes(c)

FactorySpec == FactoryInit /\ [][FactoryNext]_vars

\* The collection during playback on its own: the frames the video shows
\* come at any media times, in order
PlaybackInputs ==
    [planned : 1..MaxPlaybackFrames,
     stepMs : {17, 83},
     hasBudget : BOOLEAN,
     hasFrameCallback : BOOLEAN,
     sourceFpsCached : BOOLEAN,
     onerror : {"none", "seek"}]

SourceFpsChoices == {SOURCE_FPS_FALLBACK, 60}

\* a browser that has requestVideoFrameCallback has cancelVideoFrameCallback;
\* the element is the one createVideoElement made (paused, volume 0), with
\* the onerror handler an earlier failed seek may have left
PlaybackInit ==
    /\ WorkerIdle
    /\ ClipIdle
    /\ plan = NoPlan /\ col = NoCol /\ card = NoCard /\ element = NoElement
    /\ data = NoData /\ factory = NoFactory
    /\ \E in \in PlaybackInputs :
            pb = [NoPlayback EXCEPT
                    !.pc = "start", !.planned = in.planned, !.stepMs = in.stepMs,
                    !.baseFrameDelayMs = Max(MIN_GIF_FRAME_DELAY_MS, in.stepMs),
                    !.hasBudget = in.hasBudget, !.hasFrameCallback = in.hasFrameCallback,
                    !.hasCancelFrameCallback = in.hasFrameCallback,
                    !.sourceFpsCached = in.sourceFpsCached,
                    !.sourceFps = IF in.sourceFpsCached THEN 60 ELSE 0,
                    !.vid = [PlaybackVideo EXCEPT !.onerror = in.onerror],
                    !.original = [PlaybackVideo EXCEPT !.onerror = in.onerror],
                    !.frameBuffersByIndex = [k \in 1..in.planned |-> EmptySlot]]

PlaybackNext ==
    \/ PlaybackStart
    \/ \E ok \in BOOLEAN : SourceFpsSeek(ok)
    \/ \E ok \in BOOLEAN : SourceFpsPlay(ok)
    \/ \E how \in {"sampled", "ended", "error"}, fps \in SourceFpsChoices : SourceFpsEnds(how, fps)
    \/ \E ok \in BOOLEAN : PlaybackFirstSeek(ok)
    \/ \E ok \in BOOLEAN : PlaybackPlay(ok)
    \/ \E d \in {5, 17, 40, 100} :
            /\ pb.mediaTimeMs + d <= pb.planned * pb.stepMs + 100
            /\ OnFrame(pb.mediaTimeMs + d)
    \/ \E ok \in BOOLEAN : PlaybackEnds(ok)
    \/ \E ok \in BOOLEAN : FillOrReturn(ok)
    \/ \E ok \in BOOLEAN : CollectFramesWithSeeking(ok)

PlaybackSpec == PlaybackInit /\ [][PlaybackNext]_vars

\* The two captures that play the video, each on its own: the collection
\* during playback of a GIF, or the recording of a WebM clip with the calls
\* that cancel it
PlayingInit ==
    \/ PlaybackInit
    \/ /\ WorkerIdle
       /\ PureIdle
       /\ \E t \in Timestamps :
            clip = [c \in Clips |-> IF c = 1 THEN NewClip("webm", t, 0, 0) ELSE NoClip]
       /\ video = [v \in Videos |-> NoVideo]
       /\ gifOptions = [detectMotion |-> TRUE, createJpegIfMotionIsLow |-> TRUE]

PlayingNext ==
    \/ PlaybackNext
    \/ WebmNext({1})
    \/ \E v \in Videos, ch \in ChoicesFor(1) : Seeked(v, ch)
    \/ \E v \in Videos : VideoError(v)
    \/ \E t \in Timestamps : atTimestamp(1, t)
    \/ dispose(1)

PlayingSpec == PlayingInit /\ [][PlayingNext]_vars

\* Cards on their own: a caller asks Image.fromCard or
\* MediaFragment.fromCard for the picture of a card. The option values, the
\* subtitle intervals, the trims and the browsers callers can have:
\* every combination of option values over one interval, every interval
\* with the options that decide its duration, every combination of what the
\* card holds, and for fragments every pair of trims and every browser
CardInputs ==
    LET undefined == RawValue("undefined", 0, 1)
        number(n) == RawValue("number", n, 1)
        notFinite == {RawValue("NaN", 0, 1), RawValue("Infinity", 0, 1), RawValue("-Infinity", 0, 1)}
        durations == {undefined, number(100), RawValue("number", 2999, 2), number(100000),
                      RawValue("Infinity", 0, 1)}
        startTrims == {undefined, number(-200), number(800), number(5000)}
        endTrims == {undefined, RawValue("-Infinity", 0, 1), RawValue("number", 1001, 2), number(3001)}
        allOptions ==
            [maxDurationMs : durations,
             detectMotion : {undefined, RawValue("boolean", 0, 1)},
             createJpegIfMotionIsLow : {undefined, RawValue("string", 0, 1)},
             fps : {undefined, RawValue("NaN", 0, 1), RawValue("string", 0, 1), number(-5),
                    RawValue("number", 121, 2)},
             maxFrames : {undefined, number(0), RawValue("number", 5, 2), number(1000)},
             startTrimMs : startTrims,
             endTrimMs : endTrims]
        durationOptions ==
            {o \in allOptions : /\ o.detectMotion = undefined /\ o.createJpegIfMotionIsLow = undefined
                                /\ o.fps = undefined /\ o.maxFrames = undefined}
        subtitles == {[start |-> 1000, end |-> 2000], [start |-> 1000, end |-> 1000],
                      [start |-> 2000, end |-> 1000], [start |-> 0, end |-> 70000],
                      [start |-> 1000, end |-> 1200]}
        trims == notFinite \cup {undefined, number(-300), number(-200), number(500), number(800)}
        envs == [canvasElement : BOOLEAN, captureStream : BOOLEAN, mediaRecorder : BOOLEAN,
                 isTypeSupported : BOOLEAN,
                 accepted : {{}, {webmMimeTypeCandidates[2]}, {webmMimeTypeCandidates[3]},
                             {webmMimeTypeCandidates[1], webmMimeTypeCandidates[3]}}]
        full == CHOOSE e \in envs : /\ e.canvasElement /\ e.captureStream /\ e.mediaRecorder
                                    /\ e.isTypeSupported /\ e.accepted = {webmMimeTypeCandidates[3]}
        imageCard == [NoCard EXCEPT !.pc = "requested", !.api = "Image", !.file = TRUE,
                                    !.format = "gif", !.gifWorkerFactory = TRUE,
                                    !.subtitle = [start |-> 1000, end |-> 2000],
                                    !.gifOptions = CHOOSE o \in allOptions :
                                                        \A f \in DOMAIN o : o[f] = undefined]
        fragmentCard == [NoCard EXCEPT !.pc = "requested", !.api = "MediaFragment", !.file = TRUE,
                                       !.format = "webm", !.env = full,
                                       !.subtitle = [start |-> 1000, end |-> 2000]]
        holds == [stored : BOOLEAN, file : BOOLEAN,
                  mediaTimestamp : {undefined, number(1500)}]
    IN       {[imageCard EXCEPT !.gifOptions = o] : o \in allOptions}
        \cup {[imageCard EXCEPT !.gifOptions = o, !.subtitle = s] :
                    o \in durationOptions, s \in subtitles}
        \cup {[imageCard EXCEPT !.stored = h.stored, !.file = h.file,
                                !.mediaTimestamp = h.mediaTimestamp,
                                !.format = f, !.gifWorkerFactory = w] :
                    h \in holds, f \in {"jpeg", "gif"}, w \in BOOLEAN}
        \cup {[fragmentCard EXCEPT !.subtitle = s, !.trimStart = a, !.trimEnd = b] :
                    s \in subtitles, a \in trims, b \in trims}
        \cup {[fragmentCard EXCEPT !.stored = h.stored, !.file = h.file,
                                   !.mediaTimestamp = h.mediaTimestamp,
                                   !.format = f, !.env = e] :
                    h \in holds, f \in {"jpeg", "webm"}, e \in envs}

CardInit ==
    /\ WorkerIdle
    /\ ClipIdle
    /\ plan = NoPlan /\ col = NoCol /\ pb = NoPlayback /\ element = NoElement
    /\ data = NoData /\ factory = NoFactory
    /\ card \in CardInputs

CardNext == ImageFromCard \/ MediaFragmentFromCard

CardSpec == CardInit /\ [][CardNext]_vars

\* Data objects on their own: an object of one of the three kinds is
\* constructed, callers ask it for its picture, change its timestamp and
\* dispose of it, and the video element fires its events
DataInputs ==
    LET gifOptionsOf(m) == [DEFAULT_GIF_OPTIONS EXCEPT !.maxDurationMs = m]
        stills == {NewData("jpeg", t, t, w, 0, q, 0, FALSE) :
                        t \in {-100, 1000}, w \in {0, 100},
                        q \in {RawValue("undefined", 0, 1), RawValue("number", 150, 1)}}
        gifs == {NewData("gif", t, t + d, w, 0, gifOptionsOf(m), 0, FALSE) :
                        t \in {-100, 0, 1000}, d \in {0, 1000, 70000}, w \in {0, 100},
                        m \in {2500, 60000}}
        webms == {NewData("webm", t, t + d, w, 0, <<>>, 0, FALSE) :
                        t \in {-100, 0, 1000}, d \in {0, 1000, 5000}, w \in {0, 100}}
    IN  stills \cup gifs \cup webms
        \cup {[o EXCEPT !.promise = "pending", !.promiseReject = TRUE] : o \in gifs \cup webms}

AskedTimestamps == {-500, 1000}

DataInit ==
    /\ WorkerIdle
    /\ ClipIdle
    /\ plan = NoPlan /\ col = NoCol /\ pb = NoPlayback /\ card = NoCard /\ element = NoElement
    /\ factory = NoFactory
    /\ \E o \in DataInputs : data = [NoData EXCEPT !.objs[1] = o]

DataNext ==
    \/ \E i \in DataIds, t \in AskedTimestamps : DataAtTimestamp(i, t)
    \/ \E i \in DataIds : GetCanvas(i)
    \/ \E i \in DataIds, ok \in BOOLEAN, finite \in BOOLEAN : DataElementReady(i, ok, finite)
    \/ \E v \in DataIds : DataLoadedMetadata(v)
    \/ \E v \in DataIds, ctxOk \in BOOLEAN : DataSeeked(v, ctxOk)
    \/ \E i \in DataIds, ok \in BOOLEAN : DataResized(i, ok)
    \/ \E v \in DataIds : DataVideoError(v)
    \/ \E i \in DataIds : DataDispose(i)

DataSpec == DataInit /\ [][DataNext]_vars

\* what the platform owes: createVideoElement settles, a live element
\* loads its metadata and ends a seek it started unless it fails first,
\* resizeCanvas settles
DataFairSpec ==
    /\ DataSpec
    /\ \A i \in DataIds :
            /\ WF_vars(\E ok \in BOOLEAN, finite \in BOOLEAN : DataElementReady(i, ok, finite))
            /\ WF_vars(DataLoadedMetadata(i))
            /\ WF_vars(\E ctxOk \in BOOLEAN : DataSeeked(i, ctxOk))
            /\ WF_vars(\E ok \in BOOLEAN : DataResized(i, ok))

\* createVideoElement on its own: the element fires its events in any
\* order and at any time, and the clock runs
ElementInit ==
    /\ WorkerIdle
    /\ ClipIdle
    /\ plan = NoPlan /\ col = NoCol /\ pb = NoPlayback /\ card = NoCard
    /\ data = NoData /\ factory = NoFactory
    /\ element = createVideoElement

ElementNext ==
    \/ \E event \in {"loadedmetadata", "canplay", "error"} : ElementFires(event)
    \/ ElementTick
    \/ ElementTimeout

ElementSpec == ElementInit /\ [][ElementNext]_vars

\* time passes and a timer that is due runs its callback
ElementFairSpec == ElementSpec /\ WF_vars(ElementTick) /\ WF_vars(ElementTimeout)

----------------------------------------------------------------------------
(* Properties *)

\* the clip's blob() promise was rejected by atTimestamp or dispose
Cancelled(r) == r.blobPromise = "rejected" /\ r.blobError = CancelledError(r.kind)

\* the render of the clip stands in its capture phase: it seeks the element
\* and draws it on the canvas
Capturing(r) == r.pc \in {"seeking", "yield"}

\* C1: for N >= 1 frames and W workers with 1 <= W < N, whatever the order of
\* the applyPalette responses, the array the pool resolves with has length N
\* and holds at position i the index buffer of input frame i.
C1_PoolResultInFrameOrder ==
    \A c \in Clips :
        LET r == clip[c]
            N == PoolFrameCount(r)
        IN  (r.pool.promise = "resolved" /\ 1 <= r.pool.nWorkers /\ r.pool.nWorkers < N)
                => /\ Len(r.pool.frameIndexBuffers) = N
                   /\ \A i \in 1..N :
                        r.pool.frameIndexBuffers[i] = IndexBufferOf(r.frameBuffers[i], r.pool.palette)

\* a pool of fewer workers than frames has resolved, its frames differ and
\* one of them was completed before an earlier one
C1_Witness ==
    LET r == clip[1]
    IN  /\ r.pool.promise = "resolved"
        /\ 1 <= r.pool.nWorkers /\ r.pool.nWorkers < PoolFrameCount(r)
        /\ r.pool.outOfOrder
        /\ \E i, j \in 1..PoolFrameCount(r) : r.frameBuffers[i] # r.frameBuffers[j]

\* C2: atTimestamp(t) with t other than the clip's timestamp, called while the
\* clip's blob() promise is pending, rejects that promise with the dedicated
\* cancellation error and returns a new clip with no promise, no cached blob
\* and no render of its own, at whatever point of the render it is called.
C2_TimestampChangeCancels ==
    [][\A c \in Clips : \A t \in Timestamps :
            (/\ atTimestamp(c, t)
             /\ t # clip[c].startTimestamp
             /\ clip[c].blobPromise = "pending")
                => /\ clip'[c].blobPromise = "rejected"
                   /\ clip'[c].blobError = IF clip[c].kind = "gif"
                                             THEN <<"CancelledImageDataRenderingError">>
                                             ELSE <<"CancelledMediaFragmentDataRenderingError">>
                   /\ \E n \in Clips \ {c} :
                        /\ clip[n].kind = "none"
                        /\ clip'[n].kind = clip[c].kind
                        /\ clip'[n].startTimestamp = t
                        /\ clip'[n].blobPromise = "none"
                        /\ clip'[n].cachedBlob = "none"
                        /\ clip'[n].pc = "idle"]_vars

\* a GIF clip was cancelled by atTimestamp while its palette pool was at work
C2_Witness ==
    /\ clip[1].kind = "gif"
    /\ Cancelled(clip[1])
    /\ clip[1].pc = "applyingPalette"
    /\ clip[2].kind = "gif"
    /\ clip[1].video # 0

\* C3: once a pool worker has answered with an error response or an
\* unexpected tag, or has raised an error event, the pool's promise is
\* rejected with that first error, resolve and reject have been called once
\* in all, the promise never resolves with a slot unfilled, and the render is
\* rejected with no blob cached and no encodeIndexedGif request posted.
C3_PoolFailureRejectsOnce ==
    \A c \in Clips :
        LET r == clip[c]
        IN  /\ r.pool.settleCalls <= 1
            /\ r.pool.promise = "resolved" =>
                    \A i \in 1..Len(r.pool.frameIndexBuffers) : r.pool.frameIndexBuffers[i] # Hole
            /\ r.pool.firstError # NoError =>
                    /\ r.pool.promise = "rejected"
                    /\ r.pool.error = r.pool.firstError
                    /\ r.pool.settleCalls = 1
                    /\ r.pc = "failed"
                    /\ r.blobPromise = "rejected"
                    /\ r.blobError \in {r.pool.firstError, CancelledError(r.kind)}
                    /\ r.cachedBlob = "none"
                    /\ r.workers[0].req.command # "encodeIndexedGif"

\* a pool worker answered with an unexpected tag after some frames had been
\* completed and before the others were
C3_Witness ==
    LET r == clip[1]
    IN  /\ r.pool.firstError # NoError
        /\ r.pool.firstError[1] = "Unexpected worker response"
        /\ r.pool.completedFrameCount > 0
        /\ r.pool.completedFrameCount < PoolFrameCount(r)
        /\ r.blobError = r.pool.firstError

\* C4: when a render has ended, by success or by failure in any phase or by
\* the failure to create a later worker, none of the workers it created is
\* left running: each is terminated.
C4_WorkersTerminated ==
    \A c \in Clips :
        clip[c].pc \in {"done", "failed"} =>
            \A w \in WorkerIds : clip[c].workers[w].status \in {"none", "terminated"}

\* the factory failed for the second pool worker: the coordinator and the
\* first pool worker are terminated
C4_Witness ==
    LET r == clip[1]
    IN  /\ r.pc = "failed"
        /\ r.blobError = <<"worker factory failed">>
        /\ r.workers[0].status = "terminated"
        /\ r.workers[1].status = "terminated"
        /\ r.workers[2].status = "none"

\* C5: once a render has been cancelled, it starts no further seek of the
\* video element, creates no further worker and posts no further request.
C5_NoWorkAfterCancel ==
    [][\A c \in Clips :
            Cancelled(clip[c]) =>
                /\ ~(/\ clip'[c].pc = "seeking"
                     /\ (clip[c].pc # "seeking" \/ clip'[c].seekTarget # clip[c].seekTarget))
                /\ \A w \in WorkerIds :
                        /\ ~(clip[c].workers[w].status = "none" /\ clip'[c].workers[w].status = "live")
                        /\ clip'[c].workers[w].req \in {clip[c].workers[w].req, NoReq}]_vars

\* the render of a clip that was disposed of, its promise rejected with the
\* cancellation error, has gone through the palette pool to its end and has
\* cached a GIF
C5_Witness ==
    LET r == clip[1]
    IN  /\ Cancelled(r)
        /\ r.pc = "done"
        /\ r.cachedBlob = "gif"
        /\ r.pool.promise = "resolved"
        /\ r.video = 0

\* C6: two renders that are in their capture phase at the same time never
\* use the same video element.
C6_OneRenderPerVideo ==
    \A c1, c2 \in Clips :
        (c1 # c2 /\ Capturing(clip[c1]) /\ Capturing(clip[c2]))
            => clip[c1].rVideo # clip[c2].rVideo

\* the second clip awaits its seek of the shared element with its promise
\* pending, and the handlers on the element are those the first clip's
\* render installed after it
C6_Witness ==
    /\ clip[2].blobPromise = "pending"
    /\ clip[2].pc = "seeking"
    /\ clip[1].pc = "seeking"
    /\ clip[1].rVideo = clip[2].rVideo
    /\ video[clip[2].rVideo].status = "live"
    /\ video[clip[2].rVideo].onseeked = 1

\* C7: a clip on which blob() has not been called has no render, no worker
\* and no element of its own making; a clip starts at most one render however
\* often blob() is called; a clip with a cached blob has no render running
\* and no worker alive.
C7_OneLazyRender ==
    \A c \in Clips :
        LET r == clip[c]
        IN  /\ r.renders <= 1
            /\ r.blobPromise = "none" =>
                    /\ r.renders = 0
                    /\ r.pc = "idle"
                    /\ r.rVideo = 0
                    /\ \A w \in WorkerIds : r.workers[w].status = "none"
            /\ r.cachedBlob # "none" =>
                    /\ r.renders = 1
                    /\ r.pc = "done"
                    /\ \A w \in WorkerIds : r.workers[w].status # "live"

\* blob() was called again while the render was pending and again after it
\* had succeeded
C7_Witness ==
    /\ clip[1].calls = {"shared", "cached"}
    /\ clip[1].blobPromise = "resolved"
    /\ clip[1].cachedBlob = "gif"
    /\ clip[1].renders = 1

\* C8: dispose() called on a GIF or WebM clip whose blob() promise is pending
\* rejects the promise with the cancellation error of the clip's class, in
\* whatever phase the render is.
C8_DisposeCancels ==
    [][\A c \in Clips :
            (dispose(c) /\ clip[c].blobPromise = "pending")
                => /\ clip'[c].blobPromise = "rejected"
                   /\ clip'[c].blobError = IF clip[c].kind = "gif"
                                             THEN <<"CancelledImageDataRenderingError">>
                                             ELSE <<"CancelledMediaFragmentDataRenderingError">>]_vars

\* a WebM clip was disposed of while its recorder was recording
C8_Witness ==
    /\ clip[1].kind = "webm"
    /\ clip[1].pc = "recording"
    /\ clip[1].video = 0
    /\ clip[1].blobPromise = "rejected"
    /\ clip[1].blobError = <<"CancelledMediaFragmentDataRenderingError">>

\* C9: the worker never posts two responses for a request, and for a request
\* it has finished handling it has posted exactly one: the success tag of the
\* request's command, or an error response.
C9_OneResponsePerRequest ==
    \A i \in RequestIds :
        /\ Len(wkPosted[i]) <= 1
        /\ wkPc[i] = "done" =>
                /\ Len(wkPosted[i]) = 1
                /\ LET command == wkRequest[i].command
                       tag == wkPosted[i][1]
                   IN  \/ tag = "error"
                       \/ command = "encode" /\ tag = "encoded"
                       \/ command = "quantizePalette" /\ tag = "quantizedPalette"
                       \/ command = "applyPalette" /\ tag = "appliedPalette"
                       \/ command = "encodeIndexedGif" /\ tag = "encoded"
                       \/ command = "encodeJpeg" /\ tag = "encodedJpeg"

\* an unknown command was answered with an error and an encodeJpeg request
\* with encodedJpeg after its suspension
C9_Witness ==
    /\ wkPc[1] = "done" /\ wkRequest[1].command = "bogus" /\ wkPosted[1] = <<"error">>
    /\ wkPc[2] = "done" /\ wkRequest[2].command = "encodeJpeg" /\ wkPosted[2] = <<"encodedJpeg">>

\* the phases of a pooled render
PooledPhases == {"quantizing", "applyingPalette", "encodingIndexed"}

\* C10: in a pooled render an applyPalette request is in flight only after
\* the palette has arrived, the encodeIndexedGif request only after every
\* frame has been applied, the phase moves only from Quantizing to
\* ApplyingPalette to Encoding to Done or from any of them to Failed, and a
\* failed render posts nothing more.
C10_PooledPhasesInOrder ==
    /\ [](\A c \in Clips :
            LET r == clip[c]
            IN  /\ r.pc = "quantizing" =>
                        /\ r.pool.promise = "none"
                        /\ \A w \in PoolWorkerIds : r.workers[w].req = NoReq
                /\ (\E w \in WorkerIds : r.workers[w].req.command = "applyPalette") =>
                        /\ r.pc \in {"applyingPalette", "failed"}
                        /\ r.pool.palette \in Palettes
                        /\ r.workers[0].req = NoReq
                /\ r.workers[0].req.command = "encodeIndexedGif" =>
                        /\ r.pool.completedFrameCount = PoolFrameCount(r)
                        /\ \A i \in 1..PoolFrameCount(r) :
                                r.workers[0].req.frameIndexBuffers[i] =
                                    IndexBufferOf(r.frameBuffers[i], r.pool.palette)
                        /\ \A w \in PoolWorkerIds : r.workers[w].req = NoReq)
    /\ [][\A c \in Clips :
            LET from == clip[c].pc
                to == clip'[c].pc
            IN  /\ (from \in PooledPhases /\ to # from) =>
                        \/ to = "failed"
                        \/ from = "quantizing" /\ to = "applyingPalette"
                        \/ from = "applyingPalette" /\ to = "encodingIndexed"
                        \/ from = "encodingIndexed" /\ to = "done"
                /\ (to \in PooledPhases /\ to # from) =>
                        \/ from \in PooledPhases
                        \/ from = "poolWorkers" /\ to = "quantizing"
                /\ from = "failed" =>
                        /\ to = "failed"
                        /\ clip'[c].workers = clip[c].workers]_vars

\* a pooled render of twelve frames has reached Encoding
C10_Witness ==
    LET r == clip[1]
    IN  /\ r.pc = "encodingIndexed"
        /\ r.nWorkers >= 2
        /\ r.pool.completedFrameCount = GIF_APPLY_PALETTE_POOL_MIN_FRAMES
        /\ r.pool.outOfOrder

\* the element the render of the clip draws from has been disposed of: it
\* fires no event any more
ElementGone(r) == r.rVideo # 0 /\ video[r.rVideo].status = "disposed"

\* C11: every render that is started ends Done (its promise resolved with a
\* blob) or Failed (its promise rejected), given that the element fires
\* seeked or error for the seeks it carries out and every worker request is
\* answered: no blob() promise stays pending for ever while its element is
\* there to fire events.
C11_RenderTerminates ==
    \A c \in Clips :
        (clip[c].blobPromise = "pending")
            ~> (clip[c].blobPromise \in {"resolved", "rejected"} \/ ElementGone(clip[c]))

\* the second clip's promise is pending and its render awaits a seek of the
\* element it shares with the first clip, whose render has since run a seek
\* of its own to the end and gone on to its worker: nothing is left on the
\* element that could wake the second render
C11_Witness ==
    /\ clip[2].blobPromise = "pending"
    /\ clip[2].pc = "seeking"
    /\ clip[1].rVideo = clip[2].rVideo
    /\ clip[1].pc \in WorkerPcs
    /\ video[clip[2].rVideo].status = "live"
    /\ video[clip[2].rVideo].onseeked = 0
    /\ video[clip[2].rVideo].onerror = 0
    /\ ~video[clip[2].rVideo].seeking

\* the frames a request hands over to the worker for good (the transfer list
\* of its postMessage)
Transferred(r, req) ==
    IF req.command = "encode" THEN AllFrames(r)
    ELSE IF req.command = "applyPalette" THEN {req.frameIndex}
    ELSE IF req.command = "encodeJpeg" THEN {0}
    ELSE {}

\* C12: the coordinator never reads a frame buffer it has transferred to a
\* worker, and it never puts a frame buffer in the transfer list of a second
\* request: no request posted in a step carries a frame that was transferred
\* before the step, and no two requests in flight carry the same frame.
C12_BuffersOwnedOnce ==
    /\ [](\A c \in Clips :
            /\ ~clip[c].readDetached
            /\ \A w1, w2 \in WorkerIds :
                    (w1 # w2) => Transferred(clip[c], clip[c].workers[w1].req)
                                    \cap Transferred(clip[c], clip[c].workers[w2].req) = {})
    /\ [][\A c \in Clips : \A w \in WorkerIds :
            (clip'[c].workers[w].req # clip[c].workers[w].req)
                => Transferred(clip'[c], clip'[c].workers[w].req) \cap clip[c].detached = {}]_vars

\* the worker failed on the encodeJpeg request of a still frame whose buffer
\* had been transferred with the request, and the catch block read that buffer
C12_Witness ==
    LET r == clip[1]
    IN  /\ r.readDetached
        /\ 0 \in r.detached
        /\ r.outputExtension = "jpeg"
        /\ r.workers[0].status = "terminated"

\* C13: when the worker fails on the encodeJpeg request of the still frame
\* (error response, unexpected response or error event), the render encodes
\* the frame as JPEG on the main thread and ends Done with a JPEG blob.
C13_JpegFallbackResolves ==
    \A c \in Clips :
        clip[c].fallback => (clip[c].pc = "done" /\ clip[c].cachedBlob = "jpeg")

\* the worker answered the encodeJpeg request with an error and the render
\* was rejected by the fallback's read of the transferred buffer
C13_Witness ==
    LET r == clip[1]
    IN  /\ r.fallback
        /\ r.pc = "failed"
        /\ r.blobPromise = "rejected"
        /\ r.blobError = <<"detached frame buffer">>
        /\ r.cachedBlob = "none"

\* the length in milliseconds of the part of the requested interval that
\* lies within the source
CoveredMs(p) ==
    IF p.videoDuration.finite
        THEN Min(p.start + p.durationMs, p.videoDuration.ms) - Min(p.start, p.videoDuration.ms)
        ELSE p.durationMs

\* the start of the clip moved into the source
ClampedStart(p) ==
    IF p.videoDuration.finite THEN Min(p.start, p.videoDuration.ms) ELSE p.start

NonDecreasing(ts) == \A i \in 1..(Len(ts) - 1) : RatLeq(ts[i], ts[i + 1])

\* C19 as stated: the planner returns clamp(1, maxFrames, floor(durationSeconds
\* * fps) + 1) timestamps, durationSeconds being the duration of the clip,
\* never more than maxFrames, in non-decreasing order, a single one being the
\* clamped start
C19_CountFromRequestedDuration ==
    plan.pc = "planned" =>
        /\ Len(plan.timestamps) =
                Max(1, Min(plan.options.maxFrames,
                           (plan.durationMs * plan.options.fps) \div 1000 + 1))
        /\ Len(plan.timestamps) <= plan.options.maxFrames
        /\ NonDecreasing(plan.timestamps)
        /\ Len(plan.timestamps) = 1 => RatEq(plan.timestamps[1], Rat(ClampedStart(plan), 1))

\* C19 amended: the count is clamp(1, maxFrames, floor(coveredSeconds * fps)
\* + 1), coveredSeconds being the length of the requested interval that lies
\* within the source; never more than maxFrames timestamps, non-decreasing,
\* a single one being the clamped start
C19_CountFromCoveredDuration ==
    plan.pc = "planned" =>
        /\ Len(plan.timestamps) =
                Max(1, Min(plan.options.maxFrames,
                           (CoveredMs(plan) * plan.options.fps) \div 1000 + 1))
        /\ Len(plan.timestamps) <= plan.options.maxFrames
        /\ NonDecreasing(plan.timestamps)
        /\ Len(plan.timestamps) = 1 => RatEq(plan.timestamps[1], Rat(ClampedStart(plan), 1))

\* a 1000 ms clip at 12 fps on a source of 317 ms: 13 frames fit the clip and
\* 4 are planned
C19_Witness ==
    /\ plan.pc = "planned"
    /\ plan.start = 0 /\ plan.durationMs = 1000
    /\ plan.options.fps = 12 /\ plan.options.maxFrames = 24
    /\ plan.videoDuration = FiniteDuration(317)
    /\ Len(plan.timestamps) = 4
    /\ RatEq(plan.timestamps[1], Rat(0, 1))

WithinSource(t, videoDuration) ==
    /\ RatLeq(Rat(0, 1), t)
    /\ videoDuration.finite => RatLeq(t, Rat(videoDuration.ms, 1))

CaptureTimeNeeded(q) == q.captureMs * (q.planned - 1)

\* every frame returned was read before the collection ended, and the frames
\* are returned in the order of their timestamps
GatheredSoFar(q) ==
    /\ Len(q.frameBuffers) >= 1
    /\ \A k \in 1..Len(q.frameBuffers) : q.frameBuffers[k] \in q.preCaptured
    /\ \A k \in 1..(Len(q.frameBuffers) - 1) : q.frameBuffers[k] < q.frameBuffers[k + 1]

\* the steps the collection and the choice of the workers after it have
\* left at most: the loops count up to the number of planned frames
StepsLeft(q) ==
    CASE q.pc = "start"  -> 3 * q.planned + 5
      [] q.pc = "every"  -> q.planned - q.i + 1
      [] q.pc = "probe"  -> 2 * q.planned + 3 - Cardinality(q.preCaptured)
      [] q.pc = "main"   -> q.planned - q.i + 2
      [] q.pc = "finish" -> 2
      [] q.pc = "done"   -> 1
      [] OTHER           -> 0

\* the collection can take its next step: no loop stands at its end
NotStuck(q) ==
    /\ q.pc = "start" => q.planned >= 1
    /\ q.pc = "every" => (q.i < q.planned /\ ~q.detectMotion)
    /\ q.pc = "main" => q.i < q.planned

\* C14 as stated: when the budget is smaller than the time the captures of
\* the planned frames take, collection stops early and returns the frames
\* gathered so far with truncatedByBudget = true; every step of the
\* collection brings its return nearer
C14_TruncatedWhenOverBudget ==
    /\ []((col.pc = "done" /\ col.planned >= 2
            /\ collectionBudgetMs(col.durationMs, col.override) < CaptureTimeNeeded(col))
          => (col.truncatedByBudget = "true" /\ GatheredSoFar(col)))
    /\ []NotStuck(col)
    /\ [][StepsLeft(col') < StepsLeft(col)]_vars

\* C14 amended: with motion detection on, two or more planned frames and no
\* early still exit of the probe, a budget that the captures of the planned
\* frames reach ends the main pass before its last frame, with
\* truncatedByBudget = true and the frames gathered so far; the flag is set
\* only when the budget was reached; every step of the collection brings its
\* return nearer
C14_MotionPassTruncated ==
    /\ []((col.pc = "done" /\ col.planned >= 2 /\ col.detectMotion /\ ~col.earlyProbe
            /\ col.budgetMs <= CaptureTimeNeeded(col))
          => (col.truncatedByBudget = "true" /\ col.i < col.planned /\ GatheredSoFar(col)))
    /\ [](col.truncatedByBudget = "true" => col.clock >= col.budgetMs)
    /\ [](col.pc = "done" => GatheredSoFar(col))
    /\ []NotStuck(col)
    /\ [][StepsLeft(col') < StepsLeft(col)]_vars

\* a strong-motion clip of 13 planned frames was cut by the budget after it
\* had flushed frames
C14_Witness ==
    /\ col.pc = "done" /\ col.planned = 13 /\ col.scene = "strong"
    /\ col.budgetMs <= CaptureTimeNeeded(col)
    /\ col.truncatedByBudget = "true"
    /\ Len(col.frameBuffers) \in 2..12
    /\ col.captures < col.planned

\* every two consecutive frames of the clip are identical
AllFramesIdentical(q) ==
    \A i \in 0..(q.planned - 2) : FrameAt(q.scene, i) = FrameAt(q.scene, i + 1)

ScoreOfIdenticalIsZero(q) ==
    \A i \in 0..(q.planned - 1) :
        RatEq(motionScore(FrameAt(q.scene, i), FrameAt(q.scene, i), GIF_MOTION_SAMPLE_STRIDE),
              Rat(0, 1))

\* C16 as stated: identical frames score 0, and with createJpegIfMotionIsLow
\* a clip of identical frames is collected as one still JPEG frame
C16_IdenticalFramesGiveStill ==
    /\ ScoreOfIdenticalIsZero(col)
    /\ (col.pc = "done" /\ col.createJpegIfMotionIsLow /\ AllFramesIdentical(col))
        => (Len(col.frameBuffers) = 1 /\ col.outputExtension = "jpeg")

\* C16 amended: identical frames score 0, and with detectMotion and
\* createJpegIfMotionIsLow a clip of identical frames takes the low-motion
\* path and is collected as one still JPEG frame
C16_IdenticalFramesGiveStillWhenDetecting ==
    /\ ScoreOfIdenticalIsZero(col)
    /\ (col.pc = "done" /\ col.detectMotion /\ col.createJpegIfMotionIsLow
            /\ AllFramesIdentical(col))
        => /\ Len(col.frameBuffers) = 1
           /\ col.outputExtension = "jpeg"
           /\ col.planned >= 2 => col.motionDetected = "false"

\* a static clip of 13 planned frames left through the early exit of the probe
C16_Witness ==
    /\ col.pc = "done" /\ col.scene = "static" /\ col.planned = 13
    /\ col.detectMotion /\ col.createJpegIfMotionIsLow
    /\ col.earlyProbe
    /\ col.frameBuffers = <<12>> /\ col.outputExtension = "jpeg"

\* C17: a static clip of 1000 ms collected with detectMotion gives the
\* extension jpeg and one frame
C17_StaticClipIsJpeg ==
    (col.pc = "done" /\ col.scene = "static" /\ col.durationMs = 1000 /\ col.detectMotion)
        => (col.outputExtension = "jpeg" /\ Len(col.frameBuffers) = 1)

\* a static clip of 1000 ms and 13 planned frames went through the whole main
\* pass, createJpegIfMotionIsLow being off
C17_Witness ==
    /\ col.pc = "done" /\ col.scene = "static" /\ col.durationMs = 1000
    /\ col.detectMotion /\ ~col.createJpegIfMotionIsLow
    /\ col.planned = 13 /\ col.comparisons = 12
    /\ col.outputExtension = "jpeg" /\ Len(col.frameBuffers) = 1

\* the 1000 ms clip of strong motion at fps 12 and maxFrames 24
StrongMotionClip(q) ==
    /\ q.scene = "strong" /\ q.durationMs = 1000 /\ q.fps = 12 /\ q.maxFrames = 24
    /\ \A i \in 0..(q.planned - 2) :
            3 * Abs(SceneLevel(q.scene, i) - SceneLevel(q.scene, i + 1))
                >= GIF_MOTION_SCORE_MAX_FPS

DelaysAtLeastMinimum(q) ==
    \A k \in 1..Len(q.frameDelayMs) : q.frameDelayMs[k] >= MIN_GIF_FRAME_DELAY_MS

C15_PlaybackCoversEveryTimestamp ==
    pb.pc = "returned" =>
        /\ Len(pb.frameBuffers) = pb.planned
        /\ \A k \in 1..Len(pb.frameBuffers) :
            LET buffer == pb.frameBuffers[k]
            IN  /\ buffer.index = k - 1
                /\ \/ /\ buffer.by = "seek"
                      /\ buffer.mediaTime = pbTimestamp(pb, k - 1)
                   \/ /\ buffer.by = "playback"
                      /\ buffer.mediaTime >= pbTimestamp(pb, k - 1) - captureToleranceMs(pb)
                      /\ buffer.mediaTime <= pbTimestamp(pb, k - 1) + maxCaptureDriftMs(pb)

\* three frames returned: the second was passed over during playback and
\* filled in by a seek, the third was read during playback
C15_Witness ==
    /\ pb.pc = "returned" /\ pb.planned = 3
    /\ pb.frameBuffers[1].by = "playback"
    /\ pb.frameBuffers[2].by = "seek"
    /\ pb.frameBuffers[3].by = "playback"

----------------------------------------------------------------------------
\* C21: whatever a caller passes for the options (fields left out, NaN,
\* infinite, negative, fractional, too large or of another type), the
\* options a GIF clip is built with have fps in 1..60, maxFrames in 1..300,
\* both trims in 0..3000 and maxDurationMs in 300..60000
C21_OptionsWithinLimits ==
    (card.pc = "made" /\ card.result.type = "gif") =>
        LET o == normalizeGifOptions(card.gifOptions)
        IN  /\ card.result.options = o
            /\ o.fps \in 1..60
            /\ o.maxFrames \in 1..300
            /\ o.startTrimMs \in 0..3000
            /\ o.endTrimMs \in 0..3000
            /\ o.maxDurationMs \in 300..60000

\* a clip was made from options with a NaN, a fraction, a negative trim, an
\* infinite trim and a duration beyond the cap
C21_Witness ==
    /\ card.pc = "made"
    /\ card.result.type = "gif"
    /\ card.gifOptions.fps.type = "NaN"
    /\ card.gifOptions.maxFrames.den = 2
    /\ card.gifOptions.startTrimMs.num < 0
    /\ card.gifOptions.endTrimMs.type = "-Infinity"
    /\ card.gifOptions.maxDurationMs.num > 60000
    /\ card.result.options.maxDurationMs = 60000
    /\ card.result.options.maxFrames = 3
    /\ card.result.options.startTrimMs = 0

----------------------------------------------------------------------------
\* C22: whatever the subtitle interval (empty, reversed, shorter than the
\* trims, longer than the cap) and the options, the duration of a GIF clip
\* is at least 300 ms and at most the maxDurationMs of its options, which
\* is between 300 and 60000 ms; the duration of a WebM fragment is between
\* 300 ms and its fixed maximum
C22_DurationWithinLimits ==
    /\ (card.pc = "made" /\ card.result.type = "gif") =>
            /\ card.result.durationMs >= 300
            /\ card.result.durationMs <= card.result.options.maxDurationMs
            /\ card.result.options.maxDurationMs \in 300..60000
    /\ (card.pc = "made" /\ card.result.type = "webm") =>
            /\ card.result.durationMs >= 300
            /\ card.result.durationMs <= maxWebmMediaFragmentDurationMs
    /\ plan.pc # "none" =>
            /\ plan.durationMs >= 300
            /\ plan.durationMs <= plan.options.maxDurationMs

\* a 200 ms interval that the trims would empty is kept untrimmed and its
\* clip lasts 300 ms
C22_Witness ==
    /\ card.pc = "made"
    /\ card.result.type = "gif"
    /\ card.subtitle = [start |-> 1000, end |-> 1200]
    /\ card.result.options.startTrimMs = 800
    /\ card.result.startTimestamp = 1000
    /\ card.result.endTimestamp = 1200
    /\ card.result.durationMs = 300

----------------------------------------------------------------------------
\* navigator.hardwareConcurrency as _applyPaletteWorkerCount reads it
CoresOf(q) ==
    IF q.hardwareConcurrency.type = "number"
        THEN q.hardwareConcurrency.num \div q.hardwareConcurrency.den
        ELSE 2

\* C23 as stated: with 12 frames or more the number of palette workers is
\* hardwareConcurrency - 1 clamped to 2..4, never fewer than 2 and never more
\* than 4; with fewer frames exactly one worker is used
C23_PoolSizeClampedTo2And4 ==
    col.pc = "encoding" =>
        IF Len(col.frameBuffers) >= 12
            THEN /\ col.nWorkers = Max(2, Min(4, CoresOf(col) - 1))
                 /\ col.nWorkers \in 2..4
            ELSE col.nWorkers = 1

\* C23 amended: with 12 frames or more the number of palette workers is
\* hardwareConcurrency - 1 capped at 4 when that is at least 2, and one
\* worker when hardwareConcurrency is 2 or less or not known; never more
\* than 4; with fewer frames exactly one worker is used
C23_PoolSizeOneOr2To4 ==
    col.pc = "encoding" =>
        IF Len(col.frameBuffers) >= 12
            THEN /\ col.nWorkers = IF CoresOf(col) - 1 >= 2 THEN Min(4, CoresOf(col) - 1) ELSE 1
                 /\ col.nWorkers \in {1, 2, 3, 4}
            ELSE col.nWorkers = 1

\* thirteen frames on eight cores go to four workers
C23_Witness ==
    /\ col.pc = "encoding"
    /\ Len(col.frameBuffers) = 13
    /\ col.hardwareConcurrency = RawValue("number", 8, 1)
    /\ col.nWorkers = 4

----------------------------------------------------------------------------
\* C24: a render asks for its palette once, when its pool workers have been
\* created and it has no palette yet; the palette that came back is never
\* replaced; every applyPalette request and the encodeIndexedGif request
\* carry it, and every index buffer the pool holds is the frame of its slot
\* indexed against it
C24_OnePalettePerRender ==
    /\ [](\A c \in Clips :
            LET r == clip[c]
            IN  /\ \A w \in WorkerIds :
                        r.workers[w].req.command \in {"applyPalette", "encodeIndexedGif"} =>
                            /\ r.pool.palette \in Palettes
                            /\ r.workers[w].req.palette = r.pool.palette
                /\ \A i \in 1..Len(r.pool.frameIndexBuffers) :
                        r.pool.frameIndexBuffers[i] # Hole =>
                            r.pool.frameIndexBuffers[i] =
                                IndexBufferOf(r.frameBuffers[i], r.pool.palette))
    /\ [][\A c \in Clips :
            LET r == clip[c]
                q == clip'[c]
            IN  /\ (\E w \in WorkerIds : /\ q.workers[w].req.command = "quantizePalette"
                                          /\ r.workers[w].req.command # "quantizePalette") =>
                        /\ r.pc = "poolWorkers"
                        /\ r.pool.palette \notin Palettes
                /\ r.pc \in PooledPhases \cup {"done", "failed"} =>
                        q.pc \notin {"coordinatorWorker", "poolWorkers"}
                /\ r.pool.palette \in Palettes => q.pool.palette = r.pool.palette]_vars

\* the second palette came back, every frame was indexed against it and
\* the encodeIndexedGif request carries it
C24_Witness ==
    LET r == clip[1]
    IN  /\ r.pc = "encodingIndexed"
        /\ r.pool.palette = 2
        /\ r.workers[0].req.command = "encodeIndexedGif"
        /\ r.workers[0].req.palette = 2
        /\ \A i \in 1..PoolFrameCount(r) :
                r.workers[0].req.frameIndexBuffers[i] = IndexBufferOf(r.frameBuffers[i], 2)

----------------------------------------------------------------------------
\* C25: the promise of createVideoElement settles exactly once: resolve or
\* reject is called once in all; while it is pending the first
\* loadedmetadata or canplay resolves it and the first error rejects it;
\* with no event it is resolved, never rejected, by the timer, not before
\* VIDEO_READY_TIMEOUT_MS; once it has settled no event and no timer changes
\* it; and it does settle
C25_ElementPromiseSettlesOnce ==
    /\ [](/\ element.settles <= 1
          /\ (element.promise # "pending") <=> (element.settles = 1)
          /\ (element.promise # "pending" /\ element.fired = <<>>) =>
                /\ element.promise = "resolved"
                /\ element.timeout = "fired"
                /\ element.clock >= 5000)
    /\ [][/\ (element.promise = "pending" /\ element'.fired # element.fired) =>
                element'.promise =
                    IF element'.fired[Len(element'.fired)] = "error" THEN "rejected" ELSE "resolved"
          /\ (element.promise = "pending" /\ element'.promise = "rejected") =>
                element'.fired # element.fired
          /\ (element.promise # "pending") =>
                /\ element'.promise = element.promise
                /\ element'.settles = element.settles
                /\ element'.timeout = element.timeout
                /\ element'.handlers = element.handlers]_vars
    /\ <>(element.promise # "pending")

\* the timer resolved the promise of an element that had fired nothing, and
\* the error the element fired afterwards changed nothing
C25_Witness ==
    /\ element.promise = "resolved"
    /\ element.timeout = "fired"
    /\ element.settles = 1
    /\ element.fired = <<"error">>

----------------------------------------------------------------------------
\* the interval between two sampled frames of a clip planned at more than
\* one frame: D / (S - 1) as a whole number of milliseconds, at least the
\* shortest delay a GIF frame can have
SampledInterval(q) == Max(20, RoundDiv(q.durationMs, q.planned - 1))

FiniteTrim(raw) == IF raw.type = "number" THEN raw.num \div raw.den ELSE 0

\* C27: the WebM range of a card starts at max(0, subtitle start + start
\* trim) and ends at max(start + 300, subtitle end - end trim), a trim that
\* is not finite counting as 0; so it is at least 300 ms long, does not
\* start before 0, and with two negative trims it covers the subtitle
C27_WebmRangeResolved ==
    (card.pc = "made" /\ card.result.type = "webm") =>
        LET trimStart == FiniteTrim(card.trimStart)
            trimEnd == FiniteTrim(card.trimEnd)
            start == IF card.subtitle.start + trimStart > 0
                        THEN card.subtitle.start + trimStart ELSE 0
            end == IF card.subtitle.end - trimEnd > start + 300
                        THEN card.subtitle.end - trimEnd ELSE start + 300
        IN  /\ card.result.startTimestamp = start
            /\ card.result.endTimestamp = end
            /\ card.result.endTimestamp - card.result.startTimestamp >= 300
            /\ card.result.startTimestamp >= 0
            /\ (trimStart < 0 /\ trimEnd < 0 /\ card.subtitle.start <= card.subtitle.end) =>
                    /\ card.result.startTimestamp <= card.subtitle.start
                    /\ card.result.endTimestamp > card.subtitle.end

\* the subtitle 1000..2000 trimmed by 800 and 500, which would leave a
\* range that ends before it starts: the fragment is 1800..2100
C27_Witness ==
    /\ card.pc = "made"
    /\ card.result.type = "webm"
    /\ card.subtitle = [start |-> 1000, end |-> 2000]
    /\ card.trimStart = RawValue("number", 800, 1)
    /\ card.trimEnd = RawValue("number", 500, 1)
    /\ card.result.startTimestamp = 1800
    /\ card.result.endTimestamp = 2100

\* the browser of the card has MediaRecorder, canvas captureStream and a
\* MediaRecorder.isTypeSupported that accepts one of the WebM types
WebmTypeAccepted(c) ==
    /\ c.env.mediaRecorder
    /\ c.env.canvasElement /\ c.env.captureStream
    /\ c.env.isTypeSupported
    /\ \E i \in DOMAIN webmMimeTypeCandidates : webmMimeTypeCandidates[i] \in c.env.accepted

\* C28 as stated, for a card that has a source file and no stored
\* fragment: asked for WebM it gets a WebM fragment only when MediaRecorder
\* and captureStream exist and a WebM type is accepted, and a JPEG still
\* otherwise
C28_WebmOnlyWhenTypeAccepted ==
    (card.pc = "made" /\ card.api = "MediaFragment" /\ card.format = "webm"
            /\ card.file /\ ~card.stored) =>
        /\ card.result.type = "webm" => WebmTypeAccepted(card)
        /\ ~WebmTypeAccepted(card) => card.result.type = "jpeg"

\* C28 amended: a card with a stored fragment gets that fragment and a
\* card without a source file gets nothing, whatever the format; a card
\* with a file asked for WebM gets a WebM fragment exactly when
\* MediaRecorder and canvas captureStream exist and either
\* MediaRecorder.isTypeSupported is missing or it accepts a WebM type, and
\* otherwise a JPEG still at the card's timestamp; fromCard never throws,
\* and a card asked for JPEG never gets WebM
C28_WebmWhenSupportedOrUntestable ==
    (card.pc = "made" /\ card.api = "MediaFragment") =>
        LET supported == /\ card.env.mediaRecorder
                         /\ card.env.canvasElement /\ card.env.captureStream
                         /\ \/ ~card.env.isTypeSupported
                            \/ \E i \in DOMAIN webmMimeTypeCandidates :
                                    webmMimeTypeCandidates[i] \in card.env.accepted
        IN  /\ card.result.type # "throws"
            /\ card.stored => card.result.type = "base64"
            /\ (~card.stored /\ ~card.file) => card.result.type = "undefined"
            /\ (~card.stored /\ card.file) =>
                    IF card.format = "webm" /\ supported
                        THEN card.result.type = "webm"
                        ELSE /\ card.result.type = "jpeg"
                             /\ card.result.startTimestamp = stillTimestamp(card)

\* a card asked for WebM in a browser whose MediaRecorder has no
\* isTypeSupported and accepts no WebM type: it gets a WebM fragment
C28_Witness ==
    /\ card.pc = "made"
    /\ card.api = "MediaFragment"
    /\ card.format = "webm"
    /\ card.file /\ ~card.stored
    /\ card.env.mediaRecorder /\ card.env.canvasElement /\ card.env.captureStream
    /\ ~card.env.isTypeSupported
    /\ card.env.accepted = {}
    /\ card.result.type = "webm"

\* the frames of the pool of clip c whose index buffer has arrived
IndexedFrames(c) ==
    {j \in 1..Len(clip[c].pool.frameIndexBuffers) : clip[c].pool.frameIndexBuffers[j] # Hole}

Outstanding(c) ==
    {w \in PoolWorkerIds : clip[c].workers[w].req.command = "applyPalette"}

\* C30, in every state of a pool: the requests outstanding are for
\* different frames that have been handed out and not yet indexed; while
\* the pool has not settled every frame handed out is either indexed or
\* outstanding at exactly one worker; a pool that resolved has handed out
\* and indexed every frame; a pool in which a worker failed has settled
PoolFramesAccounted(c) ==
    LET p == clip[c].pool
        N == Len(clip[c].frameBuffers)
    IN  p.promise # "none" =>
            /\ p.nextFrameIndex \in 0..N
            /\ \A w \in Outstanding(c) :
                    /\ clip[c].workers[w].req.frameIndex \in 0..(p.nextFrameIndex - 1)
                    /\ clip[c].workers[w].req.frameIndex \in clip[c].detached
                    /\ (clip[c].workers[w].req.frameIndex + 1) \notin IndexedFrames(c)
                    /\ \A v \in Outstanding(c) :
                            v # w => clip[c].workers[v].req.frameIndex # clip[c].workers[w].req.frameIndex
            /\ ~p.settled =>
                    \A i \in 0..(p.nextFrameIndex - 1) :
                        \/ (i + 1) \in IndexedFrames(c)
                        \/ \E w \in Outstanding(c) : clip[c].workers[w].req.frameIndex = i
            /\ p.promise = "resolved" =>
                    /\ p.nextFrameIndex = N
                    /\ IndexedFrames(c) = 1..N
            /\ p.firstError # NoError => p.settled

\* C30, in every step of a pool: a worker is posted a request only while
\* the pool has not settled and no worker has failed, the worker owes no
\* other reply after the step, the frame of the request has not been sent
\* before and is the next one to hand out, and as many frames are handed
\* out as requests are posted
PoolPostsInTurn(c) ==
    LET posted == {w \in PoolWorkerIds :
                        /\ clip'[c].workers[w].req.command = "applyPalette"
                        /\ clip'[c].workers[w].req # clip[c].workers[w].req}
        before == IF clip[c].pool.promise = "pending" THEN clip[c].pool.nextFrameIndex ELSE 0
    IN  /\ clip'[c].pool.nextFrameIndex = before + Cardinality(posted)
           \/ clip'[c].pool.promise # "pending"
           \/ clip'[c].pool = clip[c].pool
        /\ \A w \in posted :
                /\ ~clip[c].pool.settled
                /\ clip[c].pool.firstError = NoError
                /\ clip'[c].pool.firstError = NoError
                /\ clip'[c].workers[w].req.frameIndex \in before..(clip'[c].pool.nextFrameIndex - 1)
                /\ clip'[c].workers[w].req.frameIndex \notin clip[c].detached
                /\ \/ clip[c].workers[w].req = NoReq
                   \/ /\ clip[c].workers[w].req.command = "applyPalette"
                      /\ (clip[c].workers[w].req.frameIndex + 1) \in
                            {j \in 1..Len(clip'[c].pool.frameIndexBuffers) :
                                    clip'[c].pool.frameIndexBuffers[j] # Hole}

\* C30: in the palette pool every frame is sent to one worker and never
\* twice, and a pool that resolves has sent them all; a worker owes at most
\* one reply at a time and is given its next frame only in the step in
\* which its previous reply arrived; nothing is posted once the pool failed
C30_EachFrameSentOnceInTurn ==
    /\ [](\A c \in Clips : PoolFramesAccounted(c))
    /\ [][\A c \in Clips : PoolPostsInTurn(c)]_vars

\* four frames and two workers: worker 1 has had its reply for frame 0 and
\* now owes frame 2, worker 2 still owes frame 1, frame 3 is not handed out
C30_Witness ==
    /\ clip[1].pool.promise = "pending"
    /\ clip[1].pool.nWorkers = 2
    /\ Len(clip[1].frameBuffers) = 4
    /\ clip[1].pool.nextFrameIndex = 3
    /\ IndexedFrames(1) = {1}
    /\ Outstanding(1) = {1, 2}
    /\ clip[1].workers[1].req.frameIndex = 2
    /\ clip[1].workers[2].req.frameIndex = 1

\* the objects atTimestamp has made
MadeByAtTimestamp == {n \in DataIds : data.objs[n].parent # 0}

\* a step leaves the timestamp, duration, options and size limits of
\* every object that exists as they are
ObjectsKeepTheirFields ==
    \A i \in DataIds :
        (data.objs[i].kind # "none") =>
            /\ data'.objs[i].timestamp = data.objs[i].timestamp
            /\ data'.objs[i].durationMs = data.objs[i].durationMs
            /\ data'.objs[i].options = data.objs[i].options
            /\ data'.objs[i].maxWidth = data.objs[i].maxWidth
            /\ data'.objs[i].maxHeight = data.objs[i].maxHeight

\* a call of atTimestamp with the object's own timestamp returns the
\* object and changes no object; any other call returns a new object
AtTimestampReturns ==
    (data'.returned # data.returned) =>
        LET i == data'.returned[1]
            t == data'.returned[2]
            n == data'.returned[3]
        IN  IF t = data.objs[i].timestamp
                THEN n = i /\ data'.objs = data.objs
                ELSE n # i /\ data.objs[n].kind = "none" /\ data'.objs[n].parent = i

\* C31 as stated: an object atTimestamp made starts at the timestamp that
\* was asked for and has the kind, duration, options and size limits of
\* the object it was made from; a call with the object's own timestamp
\* returns the object itself; and no call changes the timestamp, duration,
\* options or size limits of an object that exists, nor, when it returns
\* the same object, anything else
C31_NewObjectStartsAtT ==
    /\ [](\A n \in MadeByAtTimestamp :
            LET o == data.objs[n]
                from == data.objs[o.parent]
            IN  /\ o.timestamp = o.asked
                /\ o.kind = from.kind
                /\ o.durationMs = from.durationMs
                /\ o.options = from.options
                /\ o.maxWidth = from.maxWidth /\ o.maxHeight = from.maxHeight)
    /\ [][ObjectsKeepTheirFields /\ AtTimestampReturns]_vars

\* C31 amended: the same, but a GIF or WebM object made for a negative
\* timestamp starts at 0
C31_NewObjectStartsAtTOrZero ==
    /\ [](\A n \in MadeByAtTimestamp :
            LET o == data.objs[n]
                from == data.objs[o.parent]
            IN  /\ o.timestamp = IF o.kind # "jpeg" /\ o.asked < 0 THEN 0 ELSE o.asked
                /\ o.kind = from.kind
                /\ o.durationMs = from.durationMs
                /\ o.options = from.options
                /\ o.maxWidth = from.maxWidth /\ o.maxHeight = from.maxHeight)
    /\ [][ObjectsKeepTheirFields /\ AtTimestampReturns]_vars

\* a GIF at 0 whose render is pending was asked for the timestamp -500:
\* it is cancelled and the new object starts at 0 with its duration
C31_Witness ==
    /\ data.objs[1].kind = "gif"
    /\ data.objs[1].timestamp = 0
    /\ data.objs[1].durationMs = 1000
    /\ data.objs[1].promise = "rejected"
    /\ data.objs[2].parent = 1
    /\ data.objs[2].asked = -500
    /\ data.objs[2].timestamp = 0
    /\ data.objs[2].durationMs = 1000
    /\ data.returned = <<1, -500, 2>>

\* C32: a clip whose blob() promise was rejected with the cancellation error
\* by a timestamp change has started one render and no second one, has no
\* blob cached on it, and no call of blob() on it has returned a cached blob.
C32_CancellationIsFinal ==
    \A c \in Clips :
        Cancelled(clip[c]) =>
            /\ clip[c].renders = 1
            /\ clip[c].cachedBlob = "none"
            /\ "cached" \notin clip[c].calls

\* clip 1 was cancelled by atTimestamp, which made clip 2 on its element; the
\* render of clip 1 went on to its end and cached a GIF, which a later
\* blob() on clip 1 returned
C32_Witness ==
    /\ Cancelled(clip[1])
    /\ clip[1].video # 0
    /\ clip[2].kind = "gif"
    /\ clip[1].renders = 1
    /\ clip[1].cachedBlob = "gif"
    /\ "cached" \in clip[1].calls

\* C33: the canvas promise behind blob(), base64() and dataUrl() of a still
\* always settles, and once createVideoElement has failed for it the promise
\* is no longer pending.
C33_StillPromiseSettles ==
    /\ \A i \in DataIds :
            (data.objs[i].kind = "jpeg" /\ data.objs[i].promise = "pending")
                ~> (data.objs[i].promise # "pending")
    /\ [](\A i \in DataIds : data.objs[i].pc = "threw" => data.objs[i].promise # "pending")

\* createVideoElement has rejected for a still that nobody cancelled or
\* disposed of: the executor of its canvas promise has thrown, the promise
\* is pending and its reject function is still stored
C33_Witness ==
    LET o == data.objs[1]
    IN  /\ o.kind = "jpeg"
        /\ o.pc = "threw"
        /\ o.promise = "pending"
        /\ o.promiseReject
        /\ o.calls = {}
        /\ data.objs[2].kind = "none"

\* C34: dispose() called on a still whose canvas promise is pending and can
\* still be rejected by a timestamp change rejects that promise with the
\* cancellation error.
C34_StillDisposeCancels ==
    [][\A i \in DataIds :
            (/\ DataDispose(i)
             /\ data.objs[i].kind = "jpeg"
             /\ data.objs[i].promise = "pending"
             /\ data.objs[i].promiseReject)
                => /\ data'.objs[i].promise = "rejected"
                   /\ data'.objs[i].error = DataCancelled("jpeg")]_vars

\* a still was disposed of while its canvas promise waited for the seek of
\* its element: the element is released, no handler can run any more and the
\* promise is pending
C34_Witness ==
    LET o == data.objs[1]
    IN  /\ o.kind = "jpeg"
        /\ "disposedPending" \in o.calls
        /\ o.pc = "waiting"
        /\ o.promise = "pending"
        /\ o.video = 0
        /\ data.video[1].status = "disposed"
        /\ ~data.video[1].seeking

\* the capture during playback cannot be used: a budget is set, one frame is
\* planned or the element has no requestVideoFrameCallback
PlaybackUnavailable(q) == q.hasBudget \/ q.planned <= 1 \/ ~q.hasFrameCallback

\* _collectFrames has gone on, or is about to go on, with the capture by seeking
FellBackToSeeking(q) ==
    /\ q.pc \in {"undefined", "collected", "threw"}
    /\ q.result # "playback"
    /\ q.pc # "undefined" => q.result = "seeking"
    /\ q.error # NoError => q.error[2] = "seeking"

\* C35: when the capture during playback cannot be used, or one of its steps
\* (the first seek, play(), a frame callback, the element's error event, a
\* seek that fills a gap) fails, _collectFrames goes on with the capture by
\* seeking, and the only error it can throw is one of that capture.
C35_PlaybackFailureFallsBack ==
    /\ (pb.pc \notin {"none", "start"} /\ PlaybackUnavailable(pb)) => FellBackToSeeking(pb)
    /\ pb.caught # NoError => (FellBackToSeeking(pb) /\ pb.error # pb.caught)
    /\ pb.pc \in {"collected", "threw"} => (PlaybackUnavailable(pb) \/ pb.caught # NoError)

\* a seek that fills a gap after playback failed and the capture by seeking
\* that followed has returned its frames
C35_Witness ==
    /\ pb.pc = "collected"
    /\ pb.result = "seeking"
    /\ ~PlaybackUnavailable(pb)
    /\ pb.caught = <<"Could not seek video to create GIF", "playback">>
    /\ pb.nextFrameIndex >= 2
    /\ pb.error = NoError

\* _collectFramesWithPlayback has returned, with frames or with undefined
PlaybackCaptureEnded(q) == q.pc \in {"undefined", "returned"}

\* _renderWebm has left its try block through the finally block (it may
\* still await the recorder it stopped there), or has thrown before it
RecordingEnded(r) ==
    /\ r.kind = "webm"
    /\ r.rVideo # 0
    /\ r.pc \in {"done", "failed", "finallyStopping"}

WebmRecordingEndedWithBlob ==
    /\ clip[1].kind = "webm"
    /\ clip[1].pc = "done"
    /\ clip[1].cachedBlob = "webm"
    /\ video[clip[1].rVideo].paused
    /\ ~video[clip[1].rVideo].muted

\* C36: of two scores the higher one never gets the longer delay; every
\* delay lies between max(20, base delay) and max(20, base delay, 100); a
\* score of 200 or more gets the first and a score of 50 or less the second.
C36_DelayFallsWithScore ==
    col.pc = "delays" =>
        LET fast == Max(20, col.baseFrameDelayMs)
            slow == Max(fast, 100)
            scores == <<col.lower, col.higher>>
        IN  /\ col.requiredDelayMs[1] >= col.requiredDelayMs[2]
            /\ \A k \in 1..2 :
                /\ fast <= col.requiredDelayMs[k]
                /\ col.requiredDelayMs[k] <= slow
                /\ scores[k].num >= 200 * scores[k].den => col.requiredDelayMs[k] = fast
                /\ scores[k].num <= 50 * scores[k].den => col.requiredDelayMs[k] = slow

\* two scores strictly between the cutoff and the top score, with a base
\* delay below the slow-scene delay: the delays differ and lie strictly
\* between the two ends
C36_Witness ==
    /\ col.pc = "delays"
    /\ col.baseFrameDelayMs = 42
    /\ col.lower = Rat(100, 1)
    /\ col.higher = Rat(125, 1)
    /\ col.requiredDelayMs = <<81, 71>>

\* the collection has entered the loop of the motion pass
InMotionPass(q) ==
    /\ q.detectMotion /\ q.planned > 1 /\ ~q.earlyProbe
    /\ q.pc \notin {"none", "start", "probe"}

C38_FramesAndDelaysAgree ==
    (col.pc \notin {"none", "start", "every", "probe", "main", "finish"}) =>
        /\ Len(col.frameBuffers) = Len(col.frameDelayMs)
        /\ Len(col.frameBuffers) >= 1
        /\ Len(col.frameBuffers) <= col.planned
        /\ \A k \in 1..Len(col.frameDelayMs) : col.frameDelayMs[k] >= 20

\* a motion pass cut by the budget has returned fewer frames than planned,
\* more than one, with as many delays
C38_Witness ==
    /\ col.pc = "done"
    /\ col.truncatedByBudget = "true"
    /\ col.motionDetected = "true"
    /\ Len(col.frameBuffers) \in 2..(col.planned - 1)
    /\ Len(col.frameDelayMs) = Len(col.frameBuffers)
    /\ \E k \in 1..Len(col.frameDelayMs) : col.frameDelayMs[k] > 20

\* a caller makes a call in this step
FactoryCalled(c) == factory'.callers[c].calls = factory.callers[c].calls + 1

\* the last fetch started has not failed: its promise is pending or fulfilled
LastFetchStands(f) == f.fetches > 0 /\ f.promises[f.fetches] # "rejected"

\* C40: a call made while the last fetch of the worker script is pending or
\* has succeeded starts no fetch and awaits the promise of that fetch; a call
\* made before any fetch or after the last one failed starts a new fetch and
\* awaits it. A caller that gets a worker gets it from the fetch it awaited,
\* which succeeded, and no fetch starts while another is under way.
C40_FactorySharesOneFetch ==
    /\ [][\A c \in FactoryCallers : FactoryCalled(c) =>
            IF LastFetchStands(factory)
            THEN /\ factory'.fetches = factory.fetches
                 /\ factory'.callers[c].awaited = factory.fetches
            ELSE /\ factory'.fetches = factory.fetches + 1
                 /\ factory'.callers[c].awaited = factory.fetches + 1]_vars
    /\ [](factory.pc = "loaded" =>
            /\ \A k \in 1..(factory.fetches - 1) : factory.promises[k] = "rejected"
            /\ \A c \in FactoryCallers :
                  factory.callers[c].pc = "returned" =>
                      /\ factory.callers[c].worker = factory.callers[c].awaited
                      /\ factory.promises[factory.callers[c].worker] = "fulfilled")

\* the first fetch failed and its caller saw the error; its next call
\* started the second fetch, which the other caller joined, twice, and which
\* gave both their workers
C40_Witness ==
    /\ factory.pc = "loaded"
    /\ factory.fetches = 2
    /\ factory.promises = <<"rejected", "fulfilled">>
    /\ \A c \in FactoryCallers :
          /\ factory.callers[c].pc = "returned"
          /\ factory.callers[c].calls = 2
          /\ factory.callers[c].worker = 2

====
